---- MODULE Spec2Model ----
(***************************************************************************)
(* nuPython front end: the scanner (scanner.c) and the recursive-descent   *)
(* parser (parser.c).  The parser is modelled as a machine with an         *)
(* explicit call stack: one action per C function, one step of an action   *)
(* per stretch of straight-line code between two calls.                    *)
(*                                                                         *)
(* A run is one call of parser_parse.  The stream it reads is either a     *)
(* character stream tokenized by scanner_nextToken (mode "chars"), a NULL  *)
(* stream (mode "null"), or, for the statements made about every token     *)
(* sequence, a token source that hands over an arbitrary token sequence    *)
(* ending in one end-of-stream token (mode "tokens").                      *)
(*                                                                         *)
(* ScanSpec is a run of the scanner alone, as main.c drives it: the loop   *)
(* of scanner_nextToken turn by turn, every token printed.                 *)
(***************************************************************************)
EXTENDS Integers, Sequences, FiniteSets, TLC

\* ------------------------------------------------------------------ bounds
MaxTokens == 3      \* exhaustive token sequences: tokens before the EOS
MaxChars  == 2      \* exhaustive character streams: characters
MaxStack  == 14     \* depth of the C call stack below parser_parse
MaxScan   == 3      \* exhaustive character streams given to the scanner alone
MaxOver   == 2      \* long texts: characters below and above the buffer size

\* ------------------------------------------------------------ token kinds
\* The nuPy_* enumeration of token.h, by name (nuPy_EOS is "EOS", ...).
TokenKinds ==
  { "EOS", "UNKNOWN", "IDENTIFIER", "INT_LITERAL", "REAL_LITERAL", "STR_LITERAL",
    "KEYW_AND", "KEYW_BREAK", "KEYW_CONTINUE", "KEYW_DEF", "KEYW_ELIF",
    "KEYW_ELSE", "KEYW_FALSE", "KEYW_FOR", "KEYW_IF", "KEYW_IN", "KEYW_IS",
    "KEYW_NONE", "KEYW_NOT", "KEYW_OR", "KEYW_PASS", "KEYW_RETURN",
    "KEYW_TRUE", "KEYW_WHILE",
    "LEFT_PAREN", "RIGHT_PAREN", "LEFT_BRACKET", "RIGHT_BRACKET",
    "LEFT_BRACE", "RIGHT_BRACE", "COLON", "AMPERSAND", "ASTERISK", "POWER",
    "PLUS", "MINUS", "SLASH", "PERCENT", "EQUAL", "EQUALEQUAL", "NOTEQUAL",
    "LT", "LTE", "GT", "GTE", "EOLN" }

\* ------------------------------------------------------------ token queue
\* tokenqueue.c is not part of the sources; the queue is a sequence of
\* (token, value) pairs with the operations parser.c calls.
NoToken == [id |-> "NONE", line |-> 0, col |-> 0]

tokenqueue_create == << >>

tokenqueue_enqueue(q, T, v) == Append(q, [token |-> T, value |-> v])

tokenqueue_peekToken(q) == IF q = << >> THEN NoToken ELSE q[1].token

tokenqueue_peekValue(q) == IF q = << >> THEN << >> ELSE q[1].value

tokenqueue_peek2Token(q) == IF Len(q) < 2 THEN NoToken ELSE q[2].token

tokenqueue_dequeue(q) == IF q = << >> THEN q ELSE Tail(q)

tokenqueue_duplicate(q) == [i \in 1..Len(q) |-> q[i]]

\* ---------------------------------------------------------------- scanner
\* A text is a sequence of characters, a character a one-character string.
\* The stream is (input, rd): rd is the index of the next character fgetc
\* returns; EOF is what fgetc returns past the end.
EOF == "EOF"

Letters ==
  { "a","b","c","d","e","f","g","h","i","j","k","l","m","n","o","p","q","r",
    "s","t","u","v","w","x","y","z","A","B","C","D","E","F","G","H","I","J",
    "K","L","M","N","O","P","Q","R","S","T","U","V","W","X","Y","Z" }

Digits == { "0","1","2","3","4","5","6","7","8","9" }

isalpha(c) == c \in Letters

isdigit(c) == c \in Digits

isalnum(c) == isalpha(c) \/ isdigit(c)

isspace(c) == c \in { " ", "\t", "\n", "\r", "\f" }

fgetc(input, rd) == IF rd <= Len(input) THEN input[rd] ELSE EOF

\* the read position after an fgetc at rd
fgetcPos(input, rd) == IF rd <= Len(input) THEN rd + 1 ELSE rd

\* the read position after ungetc(c, input): ungetc(EOF) pushes nothing back
ungetc(c, rd) == IF c = EOF THEN rd ELSE rd - 1

\* the calls made on the stream, in order: fgetc with the character it
\* returned, ungetc with the character it was given
Get(c) == << "fgetc", c >>

Unget(c) == << "ungetc", c >>

\* the result n of the rest of a computation that began with the calls ops
Did(ops, n) == [n EXCEPT !.io = ops \o n.io]

\* the keyword table of scanner_nextToken: <<text, token id>>
Keywords ==
  << <<"and", "KEYW_AND">>, <<"break", "KEYW_BREAK">>,
     <<"continue", "KEYW_CONTINUE">>, <<"def", "KEYW_DEF">>,
     <<"elif", "KEYW_ELIF">>, <<"else", "KEYW_ELSE">>,
     <<"False", "KEYW_FALSE">>, <<"for", "KEYW_FOR">>, <<"if", "KEYW_IF">>,
     <<"in", "KEYW_IN">>, <<"is", "KEYW_IS">>, <<"None", "KEYW_NONE">>,
     <<"not", "KEYW_NOT">>, <<"or", "KEYW_OR">>, <<"pass", "KEYW_PASS">>,
     <<"return", "KEYW_RETURN">>, <<"True", "KEYW_TRUE">>,
     <<"while", "KEYW_WHILE">> >>

\* the text of a keyword as a sequence of characters (strcmp compares by
\* character)
RECURSIVE Join(_)
Join(v) == IF v = << >> THEN "" ELSE Head(v) \o Join(Tail(v))

strcmp0(v, s) == Len(v) = Len(s) /\ Join(v) = s

\* collect_identifier: c is the character just read, rd the position after it
RECURSIVE collect_identifier(_, _, _, _, _)
collect_identifier(input, rd, c, colNumber, value) ==
  IF isalnum(c) \/ c = "_"
  THEN Did(<< Get(fgetc(input, rd)) >>,
           collect_identifier(input, fgetcPos(input, rd), fgetc(input, rd),
                              colNumber + 1, Append(value, c)))
  ELSE [rd |-> ungetc(c, rd), colNumber |-> colNumber, value |-> value,
        io |-> << Unget(c) >>]

\* collect_string_literal, but the character that ends an unterminated
\* string is not pushed back
RECURSIVE collect_string_literal_eats(_, _, _, _, _, _, _)
collect_string_literal_eats(input, rd, start, lineNumber, col, colNumber, value) ==
  LET c  == fgetc(input, rd)
      r1 == fgetcPos(input, rd)
      warning == [kind |-> "WARNING", line |-> lineNumber, col |-> col,
                  expecting |-> "", found |-> << >>]
  IN IF c = EOF \/ c = "\n" \/ (c # start /\ (c = "'" \/ c = "\""))
     THEN [rd |-> r1, colNumber |-> colNumber, value |-> value,
           warnings |-> << warning >>, io |-> << Get(c) >>]
     ELSE IF c = start
     THEN [rd |-> r1, colNumber |-> colNumber + 1, value |-> value,
           warnings |-> << >>, io |-> << Get(c) >>]
     ELSE collect_string_literal_eats(input, r1, start, lineNumber, col,
                                      colNumber + 1, Append(value, c))

\* collect_string_literal: start is the opening quote, col the column number
\* on entry; warnings is <<>> or the one warning printed
RECURSIVE collect_string_literal(_, _, _, _, _, _, _)
collect_string_literal(input, rd, start, lineNumber, col, colNumber, value) ==
  LET c  == fgetc(input, rd)
      r1 == fgetcPos(input, rd)
      warning == [kind |-> "WARNING", line |-> lineNumber, col |-> col,
                  expecting |-> "", found |-> << >>]
  IN IF c = EOF \/ c = "\n"
     THEN [rd |-> ungetc(c, r1), colNumber |-> colNumber, value |-> value,
           warnings |-> << warning >>, io |-> << Get(c), Unget(c) >>]
     ELSE IF c = start
     THEN [rd |-> r1, colNumber |-> colNumber + 1, value |-> value,
           warnings |-> << >>, io |-> << Get(c) >>]
     ELSE IF c = "'" \/ c = "\""
     THEN [rd |-> ungetc(c, r1), colNumber |-> colNumber, value |-> value,
           warnings |-> << warning >>, io |-> << Get(c), Unget(c) >>]
     ELSE Did(<< Get(c) >>,
              collect_string_literal(input, r1, start, lineNumber, col,
                                     colNumber + 1, Append(value, c)))

\* collect_fraction, but a further '.' is taken into the literal as well
RECURSIVE collect_fraction_dots(_, _, _, _, _)
collect_fraction_dots(input, rd, c, colNumber, value) ==
  IF isdigit(c) \/ c = "."
  THEN Did(<< Get(fgetc(input, rd)) >>,
           collect_fraction_dots(input, fgetcPos(input, rd),
                                 fgetc(input, rd), colNumber + 1,
                                 Append(value, c)))
  ELSE [rd |-> ungetc(c, rd), colNumber |-> colNumber, value |-> value,
        type |-> 1, io |-> << Unget(c) >>]

\* the inner loop of collect_int_or_real_literal: the digits right of the '.'
RECURSIVE collect_fraction(_, _, _, _, _)
collect_fraction(input, rd, c, colNumber, value) ==
  IF isdigit(c)
  THEN Did(<< Get(fgetc(input, rd)) >>,
           collect_fraction(input, fgetcPos(input, rd), fgetc(input, rd),
                            colNumber + 1, Append(value, c)))
  ELSE [rd |-> ungetc(c, rd), colNumber |-> colNumber, value |-> value,
        type |-> 1, io |-> << Unget(c) >>]

\* collect_int_or_real_literal: c is the character just read; value holds
\* the sign when the literal follows a '+' or '-' (proceeding), else nothing
RECURSIVE collect_int_or_real_literal(_, _, _, _, _)
collect_int_or_real_literal(input, rd, c, colNumber, value) ==
  IF c = "."
  THEN Did(<< Get(fgetc(input, rd)) >>,
           collect_fraction(input, fgetcPos(input, rd), fgetc(input, rd),
                            colNumber + 1, Append(value, c)))
  ELSE IF ~ isdigit(c)
  THEN [rd |-> ungetc(c, rd), colNumber |-> colNumber, value |-> value,
        type |-> 0, io |-> << Unget(c) >>]
  ELSE Did(<< Get(fgetc(input, rd)) >>,
           collect_int_or_real_literal(input, fgetcPos(input, rd),
                                       fgetc(input, rd), colNumber + 1,
                                       Append(value, c)))

\* the '#' branch: read up to and including the next newline, or to EOF
RECURSIVE skip_comment(_, _, _)
skip_comment(input, rd, c) ==
  IF c # "\n" /\ c # EOF
  THEN skip_comment(input, fgetcPos(input, rd), fgetc(input, rd))
  ELSE rd

\* KeywordId, but the search stops one entry short of the end of the table
KeywordId_short(value) ==
  LET hits == { i \in 1..(Len(Keywords) - 1) :
                  strcmp0(value, Keywords[i][1]) }
  IN IF hits = {} THEN "IDENTIFIER"
     ELSE Keywords[CHOOSE i \in hits : \A j \in hits : i <= j][2]

\* the calls of fgetc the loop of the '#' branch makes
RECURSIVE comment_reads(_, _, _)
comment_reads(input, rd, c) ==
  IF c # "\n" /\ c # EOF
  THEN << Get(fgetc(input, rd)) >>
         \o comment_reads(input, fgetcPos(input, rd), fgetc(input, rd))
  ELSE << >>

\* the token id of an identifier text: the first keyword equal to it
KeywordId(value) ==
  LET hits == { i \in 1..Len(Keywords) : strcmp0(value, Keywords[i][1]) }
  IN IF hits = {} THEN "IDENTIFIER"
     ELSE Keywords[CHOOSE i \in hits : \A j \in hits : i <= j][2]

\* PunctId, but ']' is given the token id of '['
PunctId_open(c) ==
  CASE c = "(" -> "LEFT_PAREN"   [] c = ")" -> "RIGHT_PAREN"
    [] c = "[" -> "LEFT_BRACKET" [] c = "]" -> "LEFT_BRACKET"
    [] c = "{" -> "LEFT_BRACE"   [] c = "}" -> "RIGHT_BRACE"
    [] c = ":" -> "COLON"        [] c = "&" -> "AMPERSAND"
    [] c = "/" -> "SLASH"        [] c = "%" -> "PERCENT"
    [] OTHER   -> "UNKNOWN"

\* the token id of a single-character token
PunctId(c) ==
  CASE c = "(" -> "LEFT_PAREN"   [] c = ")" -> "RIGHT_PAREN"
    [] c = "[" -> "LEFT_BRACKET" [] c = "]" -> "RIGHT_BRACKET"
    [] c = "{" -> "LEFT_BRACE"   [] c = "}" -> "RIGHT_BRACE"
    [] c = ":" -> "COLON"        [] c = "&" -> "AMPERSAND"
    [] c = "/" -> "SLASH"        [] c = "%" -> "PERCENT"
    [] OTHER   -> "UNKNOWN"

\* the capacity of the buffer the scanner writes the text of a token into:
\* "char value[256]" in main and in parser_parse
ValueSize == 256

\* no collect function is running
NoCall == [proc |-> "none"]

\* where the process is after a write at value[i] that is to go on at next:
\* a write at an index that is not below ValueSize is undefined behaviour,
\* the process goes on or it dies
Written(i, next) == IF i < ValueSize THEN { next } ELSE { next, "crash" }

\* the result of one turn of the loop of scanner_nextToken that returns the
\* token id with text v, the stream at r and the column at col
Returned(id, v, r, lineNumber, colNumber, col) ==
  [T |-> [id |-> id, line |-> lineNumber, col |-> colNumber], value |-> v,
   rd |-> r, lineNumber |-> lineNumber, colNumber |-> col, warnings |-> << >>,
   io |-> << >>]

\* the result of a turn that ends in "continue": no token yet
Continue(r, line, col) ==
  [T |-> [id |-> "NONE", line |-> 0, col |-> 0], value |-> << >>, rd |-> r,
   lineNumber |-> line, colNumber |-> col, warnings |-> << >>, io |-> << >>]

\* scan_compare, but the first character is pushed back instead of the
\* character read ahead
scan_compare_first(input, r1, c, lineNumber, colNumber, id1, id2) ==
  LET c2 == fgetc(input, r1)
      r2 == fgetcPos(input, r1)
  IN IF c2 = "="
     THEN Did(<< Get(c2) >>,
              Returned(id2, <<c, c2>>, r2, lineNumber, colNumber,
                       colNumber + 2))
     ELSE Did(<< Get(c2), Unget(c) >>,
              Returned(id1, <<c>>, ungetc(c, r2), lineNumber, colNumber,
                       colNumber + 1))

\* the '=', '<' and '>' branches: c is the character read, r1 the position
\* after it; one character (id1), or two when '=' follows (id2), the
\* character read ahead being pushed back otherwise
scan_compare(input, r1, c, lineNumber, colNumber, id1, id2) ==
  LET c2 == fgetc(input, r1)
      r2 == fgetcPos(input, r1)
  IN IF c2 = "="
     THEN Did(<< Get(c2) >>,
              Returned(id2, <<c, c2>>, r2, lineNumber, colNumber,
                       colNumber + 2))
     ELSE Did(<< Get(c2), Unget(c2) >>,
              Returned(id1, <<c>>, ungetc(c2, r2), lineNumber, colNumber,
                       colNumber + 1))

\* scan_bang, but the '!' itself is pushed back instead of a character read
\* ahead
scan_bang_stuck(input, r1, c, lineNumber, colNumber) ==
  Returned("UNKNOWN", <<c>>, ungetc(c, r1), lineNumber, colNumber,
           colNumber + 1)

\* scan_bang, but the token id stays the one assumed at first, "!="
scan_bang_assumed(input, r1, c, lineNumber, colNumber) ==
  LET c2 == fgetc(input, r1)
      r2 == fgetcPos(input, r1)
  IN IF c2 = "="
     THEN Returned("NOTEQUAL", <<c, c2>>, r2, lineNumber, colNumber,
                   colNumber + 2)
     ELSE Returned("NOTEQUAL", <<c>>, ungetc(c2, r2), lineNumber, colNumber,
                   colNumber + 1)

\* the '!' branch: "!=", or an unknown token and the character read ahead
\* pushed back
scan_bang(input, r1, c, lineNumber, colNumber) ==
  LET c2 == fgetc(input, r1)
      r2 == fgetcPos(input, r1)
  IN IF c2 = "="
     THEN Did(<< Get(c2) >>,
              Returned("NOTEQUAL", <<c, c2>>, r2, lineNumber, colNumber,
                       colNumber + 2))
     ELSE Did(<< Get(c2), Unget(c2) >>,
              Returned("UNKNOWN", <<c>>, ungetc(c2, r2), lineNumber,
                       colNumber, colNumber + 1))

\* scan_sign, but the sign is always a token of its own and the character
\* read after it is pushed back
scan_sign_alone(input, r1, c, lineNumber, colNumber, id) ==
  LET c2 == fgetc(input, r1)
      r2 == fgetcPos(input, r1)
  IN Returned(id, <<c>>, ungetc(c2, r2), lineNumber, colNumber, colNumber + 1)

\* the '+' and '-' branches: a digit after the sign starts a literal whose
\* text begins with the sign; any other character read after the sign is not
\* pushed back
scan_sign(input, r1, c, lineNumber, colNumber, id) ==
  LET c2 == fgetc(input, r1)
      r2 == fgetcPos(input, r1)
  IN IF isdigit(c2)
     THEN LET n == collect_int_or_real_literal(input, r2, c2, colNumber + 1,
                                               <<c>>)
          IN Did(<< Get(c2) >> \o n.io,
                 Returned(IF n.type = 0 THEN "INT_LITERAL"
                          ELSE "REAL_LITERAL",
                          n.value, n.rd, lineNumber, colNumber, n.colNumber))
     ELSE Did(<< Get(c2) >>,
              Returned(id, <<c>>, r2, lineNumber, colNumber, colNumber + 1))

\* scan_end, but the column advances at the end of the input too
scan_end_advances(r1, c, lineNumber, colNumber) ==
  Returned("EOS", <<"$">>, r1, lineNumber, colNumber, colNumber + 1)

\* the EOF and '$' branches: the end-of-stream token with text "$"; the
\* column advances for the '$' only
scan_end(r1, c, lineNumber, colNumber) ==
  Returned("EOS", <<"$">>, r1, lineNumber, colNumber,
           IF c = EOF THEN colNumber ELSE colNumber + 1)

\* scan_space, but a newline advances the column like any other whitespace
scan_space_keepcol(r1, c, lineNumber, colNumber) ==
  IF c = "\n" THEN Continue(r1, lineNumber + 1, colNumber + 1)
  ELSE Continue(r1, lineNumber, colNumber + 1)

\* the newline and whitespace branches: no token, the loop continues
scan_space(r1, c, lineNumber, colNumber) ==
  IF c = "\n" THEN Continue(r1, lineNumber + 1, 1)
  ELSE Continue(r1, lineNumber, colNumber + 1)

\* scan_star, but the character read after a single '*' is not pushed back
scan_star_greedy(input, r1, c, lineNumber, colNumber) ==
  LET c2 == fgetc(input, r1)
      r2 == fgetcPos(input, r1)
  IN IF c2 = "*"
     THEN Returned("POWER", <<"*", "*">>, r2, lineNumber, colNumber,
                   colNumber + 2)
     ELSE Returned("ASTERISK", <<"*">>, r2, lineNumber, colNumber,
                   colNumber + 1)

\* the '*' branch: "**", or '*' and the character read ahead pushed back
scan_star(input, r1, c, lineNumber, colNumber) ==
  LET c2 == fgetc(input, r1)
      r2 == fgetcPos(input, r1)
  IN IF c2 = "*"
     THEN Did(<< Get(c2) >>,
              Returned("POWER", <<"*", "*">>, r2, lineNumber, colNumber,
                       colNumber + 2))
     ELSE Did(<< Get(c2), Unget(c2) >>,
              Returned("ASTERISK", <<"*">>, ungetc(c2, r2), lineNumber,
                       colNumber, colNumber + 1))

\* scan_comment, but the newline that ends the comment is left in the stream
scan_comment_to_newline(input, r1, c, lineNumber, colNumber) ==
  LET r == skip_comment(input, r1, c)
  IN Continue(IF input[r - 1] = "\n" THEN r - 1 ELSE r, lineNumber + 1, 1)

\* the '#' branch: the line counter is increased, the column reset and the
\* characters up to and including the next newline (or up to EOF) are read
scan_comment(input, r1, c, lineNumber, colNumber) ==
  Did(comment_reads(input, r1, c),
      Continue(skip_comment(input, r1, c), lineNumber + 1, 1))

\* scan_other, but the character is skipped and no token returned
scan_other_skipped(r1, c, lineNumber, colNumber) ==
  Continue(r1, lineNumber, colNumber + 1)

\* the final else branch: an unknown token of one character
scan_other(r1, c, lineNumber, colNumber) ==
  Returned("UNKNOWN", <<c>>, r1, lineNumber, colNumber, colNumber + 1)

\* one turn of the "while (true)" loop of scanner_nextToken: the character
\* at rd is read and either a token is returned or the loop continues
scanner_loop(input, rd, lineNumber, colNumber) ==
  LET c  == fgetc(input, rd)
      r1 == fgetcPos(input, rd)
      Res(id, v, r, col) == Returned(id, v, r, lineNumber, colNumber, col)
      turn ==
        IF c = EOF \/ c = "$" THEN scan_end(r1, c, lineNumber, colNumber)
        ELSE IF c = "\n" \/ isspace(c)
        THEN scan_space(r1, c, lineNumber, colNumber)
        ELSE IF c = "(" \/ c = ")"
        THEN Res(PunctId(c), <<c>>, r1, colNumber + 1)
        ELSE IF isalpha(c) \/ c = "_"
        THEN LET n == collect_identifier(input, r1, c, colNumber, << >>)
             IN Did(n.io, Res(KeywordId(n.value), n.value, n.rd, n.colNumber))
        ELSE IF c = "*" THEN scan_star(input, r1, c, lineNumber, colNumber)
        ELSE IF c = "+"
        THEN scan_sign(input, r1, c, lineNumber, colNumber, "PLUS")
        ELSE IF c = "-"
        THEN scan_sign(input, r1, c, lineNumber, colNumber, "MINUS")
        ELSE IF c = "/" \/ c = "%"
        THEN Res(PunctId(c), <<c>>, r1, colNumber + 1)
        ELSE IF c = "="
        THEN scan_compare(input, r1, c, lineNumber, colNumber, "EQUAL",
                          "EQUALEQUAL")
        ELSE IF c = "!" THEN scan_bang(input, r1, c, lineNumber, colNumber)
        ELSE IF c = "<"
        THEN scan_compare(input, r1, c, lineNumber, colNumber, "LT", "LTE")
        ELSE IF c = ">"
        THEN scan_compare(input, r1, c, lineNumber, colNumber, "GT", "GTE")
        ELSE IF c \in { "&", ":", "[", "]", "{", "}" }
        THEN Res(PunctId(c), <<c>>, r1, colNumber + 1)
        ELSE IF c = "'" \/ c = "\""
        THEN LET n == collect_string_literal(input, r1, c, lineNumber,
                                             colNumber, colNumber, << >>)
             IN [T |-> [id |-> "STR_LITERAL", line |-> lineNumber,
                        col |-> colNumber],
                 value |-> n.value, rd |-> n.rd,
                 lineNumber |-> lineNumber, colNumber |-> n.colNumber,
                 warnings |-> n.warnings, io |-> n.io]
        ELSE IF isdigit(c)
        THEN LET n == collect_int_or_real_literal(input, r1, c, colNumber,
                                                  << >>)
             IN Did(n.io, Res(IF n.type = 0 THEN "INT_LITERAL"
                              ELSE "REAL_LITERAL",
                              n.value, n.rd, n.colNumber))
        ELSE IF c = "#" THEN scan_comment(input, r1, c, lineNumber, colNumber)
        ELSE scan_other(r1, c, lineNumber, colNumber)
  IN Did(<< Get(c) >>, turn)

\* scanner_nextToken: one call, the turns of the loop up to the return.  The
\* result holds the token T, its text, the stream position, the cursor and
\* the warnings printed.
RECURSIVE scanner_nextToken(_, _, _, _)
scanner_nextToken(input, rd, lineNumber, colNumber) ==
  LET n == scanner_loop(input, rd, lineNumber, colNumber)
  IN IF n.T.id = "NONE"
     THEN Did(n.io, scanner_nextToken(input, n.rd, n.lineNumber, n.colNumber))
     ELSE n

\* ------------------------------------------------------------------ state
VARIABLES
  mode,        \* "chars", "tokens" or "null": what parser_parse is given
  input,       \* mode "chars": the characters of the stream
  feed,        \* mode "tokens": the token kinds the token source hands over
  isStdin,     \* input == stdin
  rd,          \* read position in input (or in feed)
  lineNumber,  \* the scanner's cursor
  colNumber,
  value,       \* the text of the last token scanned (char value[256])
  token,       \* the last token scanned
  scanned,     \* history: the (token, value) pairs the scanner returned
  io,          \* history: the calls of fgetc and ungetc on the stream
  call,        \* the call of a collect function in progress, its locals
  tokens,      \* the original queue
  duplicate,   \* its duplicate
  heap,        \* per queue: "none", "live", "freed" (destroyed), "refreed"
  pc,          \* where parser_parse is
  stack,       \* the frames of the grammar procedures below parser_parse
  ret,         \* the value the last procedure returned
  result,      \* what parser_parse returned: "none" yet, "NULL", a queue name
  fault,       \* "none", or the first read of an empty queue
  out,         \* the lines printed, in order
  peeks        \* how many times the queue was peeked at

vars == << mode, input, feed, isStdin, rd, lineNumber, colNumber, value,
           token, scanned, io, call, tokens, duplicate, heap, pc, stack,
           ret, result, fault, out, peeks >>

\* what no grammar procedure touches
scanVars == << mode, input, feed, isStdin, rd, lineNumber, colNumber, value,
               token, scanned, io, call, duplicate, heap, result >>

\* ----------------------------------------------------------------- inputs
\* the token kinds of the exhaustive token sequences
TokenAlphabet ==
  { "IDENTIFIER", "INT_LITERAL", "EQUAL", "LEFT_PAREN", "RIGHT_PAREN", "EOLN",
    "KEYW_PASS", "KEYW_IF", "ASTERISK", "PLUS", "COLON" }

\* the characters of the exhaustive character streams
CharAlphabet == { "x", "1", "=", "(", ")", "\n", " ", "+", "'", "#", "$" }

RECURSIVE SeqsUpTo(_, _)
SeqsUpTo(S, n) ==
  IF n = 0 THEN { << >> }
  ELSE LET shorter == SeqsUpTo(S, n - 1)
       IN shorter \cup { Append(s, x) : s \in shorter, x \in S }

\* token sequences that exercise each rule of the grammar (the EOS is added)
SampleFeeds ==
  { << "IDENTIFIER", "EQUAL", "INT_LITERAL", "EOLN" >>,
    << "IDENTIFIER", "EQUAL", "IDENTIFIER", "PLUS", "INT_LITERAL", "EOLN" >>,
    << "IDENTIFIER", "EQUAL", "INT_LITERAL", "PLUS", "INT_LITERAL", "PLUS",
       "INT_LITERAL", "EOLN" >>,
    << "ASTERISK", "IDENTIFIER", "EQUAL", "AMPERSAND", "IDENTIFIER", "EOLN" >>,
    << "ASTERISK", "IDENTIFIER", "EQUAL", "IDENTIFIER", "LEFT_PAREN",
       "RIGHT_PAREN", "EOLN" >>,
    << "IDENTIFIER", "EQUAL", "MINUS", "REAL_LITERAL", "EOLN" >>,
    << "IDENTIFIER", "EQUAL", "IDENTIFIER", "LEFT_PAREN", "RIGHT_PAREN",
       "EOLN" >>,
    << "IDENTIFIER", "EQUAL", "IDENTIFIER", "LEFT_PAREN", "STR_LITERAL",
       "RIGHT_PAREN", "EOLN" >>,
    << "IDENTIFIER", "EQUAL", "IDENTIFIER", "LEFT_PAREN", "EOLN" >>,
    << "IDENTIFIER", "LEFT_PAREN", "RIGHT_PAREN", "EOLN" >>,
    << "IDENTIFIER", "LEFT_PAREN", "IDENTIFIER", "RIGHT_PAREN", "EOLN" >>,
    << "KEYW_IF", "IDENTIFIER", "COLON", "EOLN", "LEFT_BRACE", "EOLN",
       "KEYW_PASS", "EOLN", "RIGHT_BRACE", "EOLN" >>,
    << "KEYW_IF", "IDENTIFIER", "COLON", "EOLN", "LEFT_BRACE", "EOLN",
       "RIGHT_BRACE", "EOLN" >>,
    << "KEYW_IF", "KEYW_TRUE", "COLON", "EOLN", "LEFT_BRACE", "EOLN",
       "KEYW_PASS", "EOLN", "RIGHT_BRACE", "EOLN",
       "KEYW_ELIF", "IDENTIFIER", "LT", "INT_LITERAL", "COLON", "EOLN",
       "LEFT_BRACE", "EOLN", "EOLN", "RIGHT_BRACE", "EOLN",
       "KEYW_ELSE", "COLON", "EOLN", "LEFT_BRACE", "EOLN", "KEYW_PASS", "EOLN",
       "RIGHT_BRACE", "EOLN" >>,
    << "KEYW_WHILE", "IDENTIFIER", "NOTEQUAL", "KEYW_NONE", "COLON", "EOLN",
       "LEFT_BRACE", "EOLN", "KEYW_PASS", "EOLN", "RIGHT_BRACE", "EOLN" >>,
    << "KEYW_WHILE", "COLON", "EOLN" >>,
    << "KEYW_PASS", "EOLN", "EOLN", "IDENTIFIER", "LEFT_PAREN", "RIGHT_PAREN",
       "EOLN", "KEYW_PASS", "EOLN" >>,
    << "KEYW_PASS", "EOLN", "IDENTIFIER", "UNKNOWN", "EOLN" >>,
    << "KEYW_PASS", "EOLN", "KEYW_ELSE", "COLON", "EOLN" >>,
    << "KEYW_PASS", "EOLN", "RIGHT_BRACE", "EOLN" >> }

Feeds ==
  { Append(s, "EOS") : s \in SeqsUpTo(TokenAlphabet, MaxTokens) \cup SampleFeeds }

\* character streams: programs of the language
SampleInputs ==
  { << "p","a","s","s","\n" >>,
    << "i","f"," ","x",":","\n","{","\n","}","\n" >>,
    << "x"," ","="," ","y","(","\n" >>,
    << "x"," ","="," ","1","\n" >>,
    << "f","(",")","\n" >>,
    << "x"," ","="," ","f","(",")","\n","$","\n" >>,
    << "x","@","'","a" >>,
    << "w","h","i","l","e"," ","x"," ","<","="," ","-","3",".","5",":","\n" >> }

Inputs == SeqsUpTo(CharAlphabet, MaxChars) \cup SampleInputs

\* the text the token source gives with a token of kind k
TokenText(k) ==
  CASE k = "EOS" -> << "$" >>
    [] k = "IDENTIFIER" -> << "x" >>
    [] k = "INT_LITERAL" -> << "1" >>
    [] k = "REAL_LITERAL" -> << "2", ".", "5" >>
    [] k = "STR_LITERAL" -> << "s" >>
    [] k = "EQUAL" -> << "=" >>
    [] k = "LEFT_PAREN" -> << "(" >>
    [] k = "RIGHT_PAREN" -> << ")" >>
    [] k = "LEFT_BRACE" -> << "{" >>
    [] k = "RIGHT_BRACE" -> << "}" >>
    [] k = "COLON" -> << ":" >>
    [] k = "ASTERISK" -> << "*" >>
    [] k = "AMPERSAND" -> << "&" >>
    [] k = "PLUS" -> << "+" >>
    [] k = "MINUS" -> << "-" >>
    [] k = "LT" -> << "<" >>
    [] k = "NOTEQUAL" -> << "!", "=" >>
    [] k = "EOLN" -> << "\n" >>
    [] k = "KEYW_PASS" -> << "p", "a", "s", "s" >>
    [] k = "KEYW_IF" -> << "i", "f" >>
    [] k = "KEYW_ELIF" -> << "e", "l", "i", "f" >>
    [] k = "KEYW_ELSE" -> << "e", "l", "s", "e" >>
    [] k = "KEYW_WHILE" -> << "w", "h", "i", "l", "e" >>
    [] k = "KEYW_TRUE" -> << "T", "r", "u", "e" >>
    [] k = "KEYW_NONE" -> << "N", "o", "n", "e" >>
    [] OTHER -> << "?" >>

\* the token source of mode "tokens": the token at position rd of the feed,
\* on line 1 at column rd
feed_nextToken(f, r) ==
  [T |-> [id |-> f[r], line |-> 1, col |-> r], value |-> TokenText(f[r]),
   rd |-> r + 1, lineNumber |-> 1, colNumber |-> r + 1, warnings |-> << >>,
   io |-> << >>]

\* one call of scanner_nextToken by parser_parse, the cursor at (line, col)
NextToken(line, col) ==
  IF mode = "chars" THEN scanner_nextToken(input, rd, line, col)
  ELSE feed_nextToken(feed, rd)

Init ==
  /\ \/ mode = "chars" /\ input \in Inputs /\ feed = << >>
        /\ isStdin \in BOOLEAN
     \/ mode = "tokens" /\ feed \in Feeds /\ input = << >> /\ isStdin = FALSE
     \/ mode = "null" /\ feed = << >> /\ input = << >> /\ isStdin = FALSE
  /\ rd = 1
  /\ lineNumber = 0
  /\ colNumber = 0
  /\ value = << >>
  /\ token = NoToken
  /\ scanned = << >>
  /\ io = << >>
  /\ call = NoCall
  /\ tokens = << >>
  /\ duplicate = << >>
  /\ heap = [tokens |-> "none", duplicate |-> "none"]
  /\ pc = "entry"
  /\ stack = << >>
  /\ ret = FALSE
  /\ result = "none"
  /\ fault = "none"
  /\ out = << >>
  /\ peeks = 0

\* ------------------------------------------------- calls, returns, output
Top == stack[Len(stack)]

\* the procedure p is on top of the stack
Running(p) == pc = "parsing" /\ stack # << >> /\ Top.proc = p

\* a new frame; entryLen records the length of the queue at the call
Frame(p, id, label) ==
  [proc |-> p, pc |-> 0, expectedID |-> id, expectedValue |-> label,
   entryLen |-> Len(tokens')]

\* return v to the caller
Return(v) ==
  /\ stack' = SubSeq(stack, 1, Len(stack) - 1)
  /\ ret' = v
  /\ pc' = pc

\* call a procedure; the caller resumes at step k.  The C stack is finite:
\* a call at depth MaxStack overflows it and the process dies.
Push(fr, k) ==
  /\ ret' = ret
  /\ IF Len(stack) < MaxStack
     THEN /\ stack' = Append([stack EXCEPT ![Len(stack)].pc = k], fr)
          /\ pc' = pc
     ELSE /\ stack' = stack
          /\ pc' = "overflow"

Call(p, k) == Push(Frame(p, "", ""), k)

CallMatch(id, label, k) == Push(Frame("match", id, label), k)

\* a step that neither touches the queue nor prints
Quiet == tokens' = tokens /\ out' = out /\ peeks' = peeks /\ fault' = fault

\* a step that peeks at the queue n times
Peek(n) ==
  /\ peeks' = peeks + n
  /\ fault' = IF tokens = << >> /\ fault = "none" THEN "empty_queue" ELSE fault

\* "if (!callee(tokens)) return false;" and then next
Check(next) == IF ~ ret THEN Quiet /\ Return(FALSE) ELSE next

\* errorMsg: the line it prints
errorMsg(expecting, v, found) ==
  [kind |-> "SYNTAX ERROR", line |-> found.line, col |-> found.col,
   expecting |-> expecting, found |-> v]

InternalError(msg) ==
  [kind |-> "INTERNAL ERROR", line |-> 0, col |-> 0, expecting |-> msg,
   found |-> << >>]

\* match(tokens, '(' ...) in parser_function_call passes the character '('
\* where a char* is expected: printing it would read through address 40
BadPointer == "(char*)40"

\* ----------------------------------------------------- grammar procedures
\* match, but the head token is removed also when it does not match
match_consumes ==
  /\ Running("match")
  /\ LET curToken == tokenqueue_peekToken(tokens)
         curValue == tokenqueue_peekValue(tokens)
     IN /\ tokens' = tokenqueue_dequeue(tokens)
        /\ IF curToken.id # Top.expectedID
           THEN /\ out' = Append(out, errorMsg(Top.expectedValue, curValue, curToken))
                /\ Return(FALSE)
           ELSE /\ out' = out
                /\ Return(TRUE)
  /\ Peek(2)
  /\ UNCHANGED scanVars

\* match, but the token removed from the queue is removed from the
\* duplicate as well (the two queues share their nodes)
match_shared ==
  /\ Running("match")
  /\ LET curToken == tokenqueue_peekToken(tokens)
         curValue == tokenqueue_peekValue(tokens)
     IN IF curToken.id # Top.expectedID
        THEN /\ out' = Append(out, errorMsg(Top.expectedValue, curValue, curToken))
             /\ tokens' = tokens
             /\ duplicate' = duplicate
             /\ Return(FALSE)
        ELSE /\ tokens' = tokenqueue_dequeue(tokens)
             /\ duplicate' = tokenqueue_dequeue(duplicate)
             /\ out' = out
             /\ Return(TRUE)
  /\ Peek(2)
  /\ UNCHANGED << mode, input, feed, isStdin, rd, lineNumber, colNumber, value,
                  token, scanned, io, call, heap, result >>

match ==
  /\ Running("match")
  /\ LET curToken == tokenqueue_peekToken(tokens)
         curValue == tokenqueue_peekValue(tokens)
     IN IF curToken.id # Top.expectedID
        THEN /\ out' = Append(out, errorMsg(Top.expectedValue, curValue, curToken))
             /\ tokens' = tokens
             /\ Return(FALSE)
        ELSE /\ tokens' = tokenqueue_dequeue(tokens)
             /\ out' = out
             /\ Return(TRUE)
  /\ Peek(2)
  /\ UNCHANGED scanVars

OpKinds ==
  { "PLUS", "MINUS", "ASTERISK", "POWER", "PERCENT", "SLASH", "EQUALEQUAL",
    "NOTEQUAL", "LT", "LTE", "GT", "GTE", "KEYW_IS", "KEYW_IN" }

parser_op ==
  /\ Running("parser_op")
  /\ Return(tokenqueue_peekToken(tokens).id \in OpKinds)
  /\ Peek(1)
  /\ UNCHANGED << tokens, out, scanVars >>

ElementKinds ==
  { "IDENTIFIER", "INT_LITERAL", "REAL_LITERAL", "STR_LITERAL", "KEYW_TRUE",
    "KEYW_FALSE", "KEYW_NONE" }

parser_element ==
  /\ Running("parser_element")
  /\ Return(tokenqueue_peekToken(tokens).id \in ElementKinds)
  /\ Peek(1)
  /\ UNCHANGED << tokens, out, scanVars >>

parser_unary_expr ==
  /\ Running("parser_unary_expr")
  /\ LET nextToken == tokenqueue_peekToken(tokens)
         nextnextToken == tokenqueue_peek2Token(tokens)
     IN CASE Top.pc = 0 ->
               /\ Peek(2)
               /\ UNCHANGED << tokens, out >>
               /\ IF \/ nextToken.id = "ASTERISK" /\ nextnextToken.id = "IDENTIFIER"
                     \/ nextToken.id = "AMPERSAND" /\ nextnextToken.id = "IDENTIFIER"
                     \/ /\ nextToken.id \in { "PLUS", "MINUS" }
                        /\ nextnextToken.id \in
                             { "IDENTIFIER", "INT_LITERAL", "REAL_LITERAL" }
                  THEN Return(TRUE)
                  ELSE Call("parser_element", 1)
          [] Top.pc = 1 -> Quiet /\ Return(ret)
  /\ UNCHANGED scanVars

parser_expr ==
  /\ Running("parser_expr")
  /\ Quiet
  /\ CASE Top.pc = 0 -> Call("parser_unary_expr", 1)
       [] Top.pc = 1 -> IF ~ ret THEN Return(FALSE) ELSE Call("parser_op", 2)
       [] Top.pc = 2 -> IF ret THEN Call("parser_unary_expr", 3) ELSE Return(TRUE)
       [] Top.pc = 3 -> IF ~ ret THEN Return(FALSE) ELSE Return(TRUE)
  /\ UNCHANGED scanVars

parser_function_call ==
  /\ Running("parser_function_call")
  /\ Quiet
  /\ CASE Top.pc = 0 -> CallMatch("IDENTIFIER", "identifier", 1)
       [] Top.pc = 1 -> IF ~ ret THEN Return(FALSE)
                        ELSE CallMatch("LEFT_PAREN", BadPointer, 2)
       [] Top.pc = 2 -> IF ~ ret THEN Return(FALSE)
                        ELSE Call("parser_element", 3)
       [] Top.pc = 3 -> CallMatch("RIGHT_PAREN", ")", 4)
       [] Top.pc = 4 -> IF ~ ret THEN Return(FALSE) ELSE Return(TRUE)
  /\ UNCHANGED scanVars

parser_body ==
  /\ Running("parser_body")
  /\ Quiet
  /\ CASE Top.pc = 0 -> CallMatch("LEFT_BRACE", "{", 1)
       [] Top.pc = 1 -> IF ~ ret THEN Return(FALSE)
                        ELSE CallMatch("EOLN", "EOLN", 2)
       [] Top.pc = 2 -> IF ~ ret THEN Return(FALSE) ELSE Call("parser_stmts", 3)
       [] Top.pc = 3 -> IF ~ ret THEN Return(FALSE)
                        ELSE CallMatch("RIGHT_BRACE", "}", 4)
       [] Top.pc = 4 -> IF ~ ret THEN Return(FALSE)
                        ELSE CallMatch("EOLN", "EOLN", 5)
       [] Top.pc = 5 -> IF ~ ret THEN Return(FALSE) ELSE Return(TRUE)
  /\ UNCHANGED scanVars

parser_else ==
  /\ Running("parser_else")
  /\ LET nextToken == tokenqueue_peekToken(tokens)
         nextValue == tokenqueue_peekValue(tokens)
         optionalelse == tokenqueue_peekToken(tokens)
     IN CASE Top.pc = 0 ->
               /\ Peek(2)
               /\ IF nextToken.id = "KEYW_ELIF"
                  THEN /\ tokens' = tokenqueue_dequeue(tokens)
                       /\ out' = out
                       /\ Call("parser_expr", 1)
                  ELSE IF nextToken.id = "KEYW_ELSE"
                  THEN /\ tokens' = tokenqueue_dequeue(tokens)
                       /\ out' = out
                       /\ CallMatch("COLON", ":", 10)
                  ELSE /\ tokens' = tokens
                       /\ out' = Append(out, errorMsg("else or elif", nextValue,
                                                      nextToken))
                       /\ Return(FALSE)
          [] Top.pc = 1 -> Check(Quiet /\ CallMatch("COLON", ":", 2))
          [] Top.pc = 2 -> Check(Quiet /\ CallMatch("EOLN", "EOLN", 3))
          [] Top.pc = 3 -> Check(Quiet /\ Call("parser_body", 4))
          [] Top.pc = 4 ->
               Check(/\ Peek(1)
                     /\ UNCHANGED << tokens, out >>
                     /\ IF optionalelse.id \in { "KEYW_ELSE", "KEYW_ELIF" }
                        THEN Call("parser_else", 5)
                        ELSE Return(TRUE))
          [] Top.pc = 5 -> Quiet /\ Return(ret)
          [] Top.pc = 10 -> Check(Quiet /\ CallMatch("EOLN", "EOLN", 11))
          [] Top.pc = 11 -> Check(Quiet /\ Call("parser_body", 12))
          [] Top.pc = 12 -> Check(Quiet /\ Return(TRUE))
  /\ UNCHANGED scanVars

parser_value ==
  /\ Running("parser_value")
  /\ LET nextToken == tokenqueue_peekToken(tokens)
         nextnextToken == tokenqueue_peek2Token(tokens)
     IN CASE Top.pc = 0 ->
               /\ Peek(2)
               /\ UNCHANGED << tokens, out >>
               /\ IF nextToken.id = "IDENTIFIER" /\ nextnextToken.id = "LEFT_PAREN"
                  THEN Call("parser_function_call", 1)
                  ELSE Call("parser_expr", 1)
          [] Top.pc = 1 -> Quiet /\ Return(ret)
  /\ UNCHANGED scanVars

parser_assignment ==
  /\ Running("parser_assignment")
  /\ LET nextToken == tokenqueue_peekToken(tokens)
     IN CASE Top.pc = 0 ->
               /\ Peek(1)
               /\ tokens' = IF nextToken.id = "ASTERISK"
                            THEN tokenqueue_dequeue(tokens) ELSE tokens
               /\ out' = out
               /\ CallMatch("IDENTIFIER", "identifier", 1)
          [] Top.pc = 1 -> Check(Quiet /\ CallMatch("EQUAL", "=", 2))
          [] Top.pc = 2 -> Check(Quiet /\ Call("parser_value", 3))
          [] Top.pc = 3 -> Check(Quiet /\ CallMatch("EOLN", "EOLN", 4))
          [] Top.pc = 4 -> Check(Quiet /\ Return(TRUE))
  /\ UNCHANGED scanVars

parser_if_then_else ==
  /\ Running("parser_if_then_else")
  /\ LET curToken == tokenqueue_peekToken(tokens)
     IN CASE Top.pc = 0 -> Quiet /\ CallMatch("KEYW_IF", "if", 1)
          [] Top.pc = 1 -> Check(Quiet /\ Call("parser_expr", 2))
          [] Top.pc = 2 -> Check(Quiet /\ CallMatch("COLON", ":", 3))
          [] Top.pc = 3 -> Check(Quiet /\ CallMatch("EOLN", "EOLN", 4))
          [] Top.pc = 4 -> Check(Quiet /\ Call("parser_body", 5))
          [] Top.pc = 5 ->
               Check(/\ Peek(1)
                     /\ UNCHANGED << tokens, out >>
                     /\ IF curToken.id \in { "KEYW_ELIF", "KEYW_ELSE" }
                        THEN Call("parser_else", 6)
                        ELSE Return(TRUE))
          [] Top.pc = 6 -> Quiet /\ Return(ret)
  /\ UNCHANGED scanVars

parser_while_loop ==
  /\ Running("parser_while_loop")
  /\ CASE Top.pc = 0 -> Quiet /\ CallMatch("KEYW_WHILE", "while", 1)
       [] Top.pc = 1 -> Check(Quiet /\ Call("parser_expr", 2))
       [] Top.pc = 2 -> Check(Quiet /\ CallMatch("COLON", ":", 3))
       [] Top.pc = 3 -> Check(Quiet /\ CallMatch("EOLN", "EOLN", 4))
       [] Top.pc = 4 -> Check(Quiet /\ Call("parser_body", 5))
       [] Top.pc = 5 -> Check(Quiet /\ Return(TRUE))
  /\ UNCHANGED scanVars

parser_call_stmt ==
  /\ Running("parser_call_stmt")
  /\ CASE Top.pc = 0 -> Quiet /\ Call("parser_function_call", 1)
       [] Top.pc = 1 -> Check(Quiet /\ CallMatch("EOLN", "EOLN", 2))
       [] Top.pc = 2 -> Check(Quiet /\ Return(TRUE))
  /\ UNCHANGED scanVars

parser_pass_stmt ==
  /\ Running("parser_pass_stmt")
  /\ CASE Top.pc = 0 -> Quiet /\ CallMatch("KEYW_PASS", "pass", 1)
       [] Top.pc = 1 -> Check(Quiet /\ CallMatch("EOLN", "EOLN", 2))
       [] Top.pc = 2 -> Check(Quiet /\ Return(TRUE))
  /\ UNCHANGED scanVars

parser_empty_stmt ==
  /\ Running("parser_empty_stmt")
  /\ CASE Top.pc = 0 -> Quiet /\ CallMatch("EOLN", "EOLN", 1)
       [] Top.pc = 1 -> Check(Quiet /\ Return(TRUE))
  /\ UNCHANGED scanVars

\* the condition of startOfStmt on the first two tokens
StartsStmt(nextToken, nextnextToken) ==
  \/ nextToken.id = "IDENTIFIER"
  \/ nextToken.id = "ASTERISK" /\ nextnextToken.id = "IDENTIFIER"
  \/ nextToken.id = "KEYW_IF"
  \/ nextToken.id = "KEYW_WHILE"
  \/ nextToken.id = "KEYW_PASS"
  \/ nextToken.id = "EOLN"

startOfStmt ==
  /\ Running("startOfStmt")
  /\ Return(StartsStmt(tokenqueue_peekToken(tokens),
                       tokenqueue_peek2Token(tokens)))
  /\ Peek(2)
  /\ UNCHANGED << tokens, out, scanVars >>

\* the branch parser_stmt takes on the first two tokens: the procedure it
\* calls, "internal" for the final else, or "none" when control reaches the
\* closing brace of the function without a return statement
Dispatch(nextToken, nextnextToken) ==
  IF nextToken.id = "ASTERISK" /\ nextnextToken.id = "IDENTIFIER"
  THEN "parser_assignment"
  ELSE IF nextToken.id = "IDENTIFIER"
  THEN IF nextnextToken.id = "LEFT_PAREN" THEN "parser_call_stmt"
       ELSE IF nextnextToken.id = "EQUAL" THEN "parser_assignment"
       ELSE "none"
  ELSE IF nextToken.id = "KEYW_IF" THEN "parser_if_then_else"
  ELSE IF nextToken.id = "KEYW_WHILE" THEN "parser_while_loop"
  ELSE IF nextToken.id = "KEYW_PASS" THEN "parser_pass_stmt"
  ELSE IF nextToken.id = "EOLN" THEN "parser_empty_stmt"
  ELSE "internal"

parser_stmt ==
  /\ Running("parser_stmt")
  /\ LET curToken == tokenqueue_peekToken(tokens)
         curValue == tokenqueue_peekValue(tokens)
         branch == Dispatch(tokenqueue_peekToken(tokens),
                            tokenqueue_peek2Token(tokens))
     IN CASE Top.pc = 0 -> Quiet /\ Call("startOfStmt", 1)
          [] Top.pc = 1 ->
               /\ Peek(2)
               /\ tokens' = tokens
               /\ IF ~ ret
                  THEN /\ out' = Append(out, errorMsg("start of a statement",
                                                      curValue, curToken))
                       /\ Return(FALSE)
                  ELSE IF branch = "internal"
                  THEN /\ out' = Append(out,
                              InternalError("unknown stmt (parser_stmt)"))
                       /\ Return(FALSE)
                  ELSE IF branch = "none"
                  \* no return statement is executed: the caller reads a
                  \* value the function never set
                  THEN /\ out' = out
                       /\ \E garbage \in BOOLEAN : Return(garbage)
                  ELSE /\ out' = out
                       /\ Call(branch, 2)
          [] Top.pc = 2 -> Quiet /\ Return(ret)
  /\ UNCHANGED scanVars

\* parser_stmts, but after a failed statement it looks for the next one
parser_stmts_resync ==
  /\ Running("parser_stmts")
  /\ Quiet
  /\ CASE Top.pc = 0 -> Call("parser_stmt", 1)
       [] Top.pc = 1 -> Call("startOfStmt", 2)
       [] Top.pc = 2 -> IF ret THEN Call("parser_stmts", 3) ELSE Return(TRUE)
       [] Top.pc = 3 -> Return(ret)
  /\ UNCHANGED scanVars

parser_stmts ==
  /\ Running("parser_stmts")
  /\ Quiet
  /\ CASE Top.pc = 0 -> Call("parser_stmt", 1)
       [] Top.pc = 1 -> IF ~ ret THEN Return(FALSE) ELSE Call("startOfStmt", 2)
       [] Top.pc = 2 -> IF ret THEN Call("parser_stmts", 3) ELSE Return(TRUE)
       [] Top.pc = 3 -> Return(ret)
  /\ UNCHANGED scanVars

\* parser_program, but without the match of the end-of-stream token
parser_program_noEOS ==
  /\ Running("parser_program")
  /\ Quiet
  /\ CASE Top.pc = 0 -> Call("parser_stmts", 1)
       [] Top.pc = 1 -> IF ~ ret THEN Return(FALSE) ELSE Return(TRUE)
  /\ UNCHANGED scanVars

parser_program ==
  /\ Running("parser_program")
  /\ Quiet
  /\ CASE Top.pc = 0 -> Call("parser_stmts", 1)
       [] Top.pc = 1 -> IF ~ ret THEN Return(FALSE) ELSE CallMatch("EOS", "$", 2)
       [] Top.pc = 2 -> IF ~ ret THEN Return(FALSE) ELSE Return(TRUE)
  /\ UNCHANGED scanVars

\* ------------------------------------------------------------ parser_parse
\* the effect of "token = scanner_nextToken(input, &lineNumber, &colNumber,
\* value)" with the cursor at (line, col)
Scan(line, col) ==
  LET n == NextToken(line, col)
  IN /\ token' = n.T
     /\ value' = n.value
     /\ rd' = n.rd
     /\ lineNumber' = n.lineNumber
     /\ colNumber' = n.colNumber
     /\ scanned' = Append(scanned, [token |-> n.T, value |-> n.value])
     /\ io' = io \o n.io
     /\ call' = call
     /\ out' = out \o n.warnings

\* entry: the NULL check, scanner_init, the first token, tokenqueue_create
parser_parse_begin ==
  /\ pc = "entry"
  /\ IF mode = "null"
     THEN /\ out' = Append(out,
                 InternalError("input stream is NULL (parser_parse)"))
          /\ result' = "NULL"
          /\ pc' = "done"
          /\ UNCHANGED << rd, lineNumber, colNumber, value, token, scanned, io,
                          call, tokens, heap >>
     ELSE /\ Scan(1, 1)
          /\ tokens' = tokenqueue_create
          /\ heap' = [heap EXCEPT !.tokens = "live"]
          /\ pc' = "loop"
          /\ result' = result
  /\ UNCHANGED << mode, input, feed, isStdin, duplicate, stack, ret, fault,
                  peeks >>

\* one turn of "while (token.id != nuPy_EOS)"
parser_parse_loop ==
  /\ pc = "loop"
  /\ token.id # "EOS"
  /\ tokens' = tokenqueue_enqueue(tokens, token, value)
  /\ Scan(lineNumber, colNumber)
  /\ UNCHANGED << mode, input, feed, isStdin, duplicate, heap, pc, stack, ret,
                  result, fault, peeks >>

\* parser_parse_call, but the queue is duplicated before the final token
\* is enqueued
parser_parse_call_early ==
  /\ pc = "loop"
  /\ token.id = "EOS"
  /\ tokens' = tokenqueue_enqueue(tokens, token, value)
  /\ duplicate' = tokenqueue_duplicate(tokens)
  /\ heap' = [heap EXCEPT !.duplicate = "live"]
  /\ pc' = "parsing"
  /\ stack' = << Frame("parser_program", "", "") >>
  /\ UNCHANGED << mode, input, feed, isStdin, rd, lineNumber, colNumber, value,
                  token, scanned, io, call, ret, result, fault, out,
                  peeks >>

\* parser_parse_call, but the final token is not enqueued
parser_parse_call_noEOS ==
  /\ pc = "loop"
  /\ token.id = "EOS"
  /\ tokens' = tokens
  /\ duplicate' = tokenqueue_duplicate(tokens)
  /\ heap' = [heap EXCEPT !.duplicate = "live"]
  /\ pc' = "parsing"
  /\ stack' = << Frame("parser_program", "", "") >>
  /\ UNCHANGED << mode, input, feed, isStdin, rd, lineNumber, colNumber, value,
                  token, scanned, io, call, ret, result, fault, out,
                  peeks >>

\* after the loop: the final token is enqueued, the queue is duplicated and
\* parser_program is called
parser_parse_call ==
  /\ pc = "loop"
  /\ token.id = "EOS"
  /\ LET all == tokenqueue_enqueue(tokens, token, value)
     IN /\ tokens' = all
        /\ duplicate' = tokenqueue_duplicate(all)
  /\ heap' = [heap EXCEPT !.duplicate = "live"]
  /\ pc' = "parsing"
  /\ stack' = << Frame("parser_program", "", "") >>
  /\ UNCHANGED << mode, input, feed, isStdin, rd, lineNumber, colNumber, value,
                  token, scanned, io, call, ret, result, fault, out,
                  peeks >>

\* tokenqueue_destroy(q): the state of the heap object after it
Destroyed(h) == IF h = "live" THEN "freed" ELSE "refreed"

\* parser_parse_end, but the duplicate is destroyed whatever the outcome
parser_parse_end_destroys ==
  /\ pc = "parsing"
  /\ stack = << >>
  /\ rd' = IF ret /\ isStdin
           THEN skip_comment(input, fgetcPos(input, rd), fgetc(input, rd))
           ELSE rd
  /\ io' = IF ret /\ isStdin
           THEN io \o << Get(fgetc(input, rd)) >>
                   \o comment_reads(input, fgetcPos(input, rd),
                                    fgetc(input, rd))
           ELSE io
  /\ call' = call
  /\ tokens' = << >>
  /\ result' = IF ret THEN "duplicate" ELSE "NULL"
  /\ duplicate' = << >>
  /\ heap' = [tokens |-> Destroyed(heap.tokens),
              duplicate |-> Destroyed(heap.duplicate)]
  /\ pc' = "done"
  /\ UNCHANGED << mode, input, feed, isStdin, lineNumber, colNumber, value,
                  token, scanned, stack, ret, fault, out, peeks >>

\* parser_program has returned: the rest of the line is read from stdin
\* after a success, the original queue is destroyed, and the duplicate is
\* returned or destroyed
parser_parse_end ==
  /\ pc = "parsing"
  /\ stack = << >>
  /\ rd' = IF ret /\ isStdin
           THEN skip_comment(input, fgetcPos(input, rd), fgetc(input, rd))
           ELSE rd
  /\ io' = IF ret /\ isStdin
           THEN io \o << Get(fgetc(input, rd)) >>
                   \o comment_reads(input, fgetcPos(input, rd),
                                    fgetc(input, rd))
           ELSE io
  /\ call' = call
  /\ tokens' = << >>
  /\ IF ret
     THEN /\ result' = "duplicate"
          /\ duplicate' = duplicate
          /\ heap' = [heap EXCEPT !.tokens = Destroyed(heap.tokens)]
     ELSE /\ result' = "NULL"
          /\ duplicate' = << >>
          /\ heap' = [tokens |-> Destroyed(heap.tokens),
                      duplicate |-> Destroyed(heap.duplicate)]
  /\ pc' = "done"
  /\ UNCHANGED << mode, input, feed, isStdin, lineNumber, colNumber, value,
                  token, scanned, stack, ret, fault, out, peeks >>

\* the step of the procedure on top of the stack
Grammar ==
  /\ pc = "parsing"
  /\ stack # << >>
  /\ CASE Top.proc = "match" -> match
       [] Top.proc = "parser_op" -> parser_op
       [] Top.proc = "parser_element" -> parser_element
       [] Top.proc = "parser_unary_expr" -> parser_unary_expr
       [] Top.proc = "parser_expr" -> parser_expr
       [] Top.proc = "parser_function_call" -> parser_function_call
       [] Top.proc = "parser_body" -> parser_body
       [] Top.proc = "parser_else" -> parser_else
       [] Top.proc = "parser_value" -> parser_value
       [] Top.proc = "parser_assignment" -> parser_assignment
       [] Top.proc = "parser_if_then_else" -> parser_if_then_else
       [] Top.proc = "parser_while_loop" -> parser_while_loop
       [] Top.proc = "parser_call_stmt" -> parser_call_stmt
       [] Top.proc = "parser_pass_stmt" -> parser_pass_stmt
       [] Top.proc = "parser_empty_stmt" -> parser_empty_stmt
       [] Top.proc = "startOfStmt" -> startOfStmt
       [] Top.proc = "parser_stmt" -> parser_stmt
       [] Top.proc = "parser_stmts" -> parser_stmts
       [] Top.proc = "parser_program" -> parser_program

Next ==
  \/ parser_parse_begin
  \/ parser_parse_loop
  \/ parser_parse_call
  \/ Grammar
  \/ parser_parse_end

Spec == Init /\ [][Next]_vars

\* ------------------------------------------------------- the scanner alone
\* main.c of the scanner: scanner_init, then scanner_nextToken until it
\* returns the end-of-stream token, each token printed.  A call of
\* scanner_nextToken is followed turn by turn of its loop (pc "scanning").
\* The modes "null_init", "null_stream" and "null_cursor" are a client of
\* scanner.h that passes a NULL pointer to scanner_init, or a NULL stream or
\* a NULL cursor to scanner_nextToken.
ScanModes == { "scan", "null_init", "null_stream", "null_cursor" }

\* the characters of the exhaustive streams given to the scanner
ScanAlphabet ==
  { "x", "1", ".", "-", "=", "!", "<", "*", " ", "\n", "'", "\"", "#", "$" }

\* texts with the characters and the lengths the exhaustive streams lack
SampleScanInputs ==
  { << "x"," ","="," ","1","\n" >>,
    << "-","3",".","5" >>,
    << "+","4","2"," ","x" >>,
    << "a","-","b" >>,
    << "a","+","b" >>,
    << "x",">","=","1","!","y",">","2" >>,
    << "x","=","=","1","!","=","2","<","=","3" >>,
    << "'","a","b","'"," ","x" >>,
    << "\"","a","'","x","\n","y" >>,
    << "-","\n","x" >>,
    << "x","\t","y","\n","\n"," ","z" >>,
    << "#"," ","c","\n","x"," ","#","c" >>,
    << "p","a","s","s","\n" >> }

\* the 18 keywords, each as a text of its own
KeywordInputs ==
  { << "a","n","d" >>,
    << "b","r","e","a","k" >>,
    << "c","o","n","t","i","n","u","e" >>,
    << "d","e","f" >>,
    << "e","l","i","f" >>,
    << "e","l","s","e" >>,
    << "F","a","l","s","e" >>,
    << "f","o","r" >>,
    << "i","f" >>,
    << "i","n" >>,
    << "i","s" >>,
    << "N","o","n","e" >>,
    << "n","o","t" >>,
    << "o","r" >>,
    << "p","a","s","s" >>,
    << "r","e","t","u","r","n" >>,
    << "T","r","u","e" >>,
    << "w","h","i","l","e" >> }

\* texts for the rules of the scanner: identifiers next to keywords,
\* punctuation, literals, strings, unknown characters, comments, '$'
RuleInputs ==
  { << "t","r","u","e" >>,
    << "T","r","u","e"," ","t","r","u","e" >>,
    << "W","h","i","l","e" >>,
    << "p","a","s","s","x" >>,
    << "x","_","1"," ","y" >>,
    << "_","a","1","(","b","2",")" >>,
    << "i","f"," ","x",":" >>,
    << "(",")","[","]","{","}",":","&" >>,
    << "(","x",")","&","y","[","1","]",":","{","}" >>,
    << "1",".","2",".","3" >>,
    << "1","2"," ","3",".","x" >>,
    << "7","." >>,
    << "'","a","b","c" >>,
    << "\"","a"," ","b","\"","x" >>,
    << "'","a","\"","b" >>,
    << "'","a","\n","b" >>,
    << "@",";","?" >>,
    << "x","@","1" >>,
    << "/","%" >>,
    << "*","*","x" >>,
    << "a","*","*","*","b" >>,
    << "x","$","y" >>,
    << "x","#","c","$","\n","$","y" >>,
    << "#","a","\n","#","b","\n","x" >> }

ScanInputs ==
  SeqsUpTo(ScanAlphabet, MaxScan) \cup SampleScanInputs \cup KeywordInputs
    \cup RuleInputs

\* what the scanner alone leaves as it is: the parser's state
parserVars == << feed, tokens, duplicate, heap, stack, ret, result, fault,
                 peeks >>

\* the locals of main before scanner_init, and the variables of the parser,
\* which main does not use
ScanStart ==
  /\ feed = << >>
  /\ rd = 1
  /\ lineNumber = -1
  /\ colNumber = -1
  /\ value = << >>
  /\ token = NoToken
  /\ scanned = << >>
  /\ io = << >>
  /\ call = NoCall
  /\ tokens = << >>
  /\ duplicate = << >>
  /\ heap = [tokens |-> "none", duplicate |-> "none"]
  /\ pc = "main"
  /\ stack = << >>
  /\ ret = FALSE
  /\ result = "none"
  /\ fault = "none"
  /\ out = << >>
  /\ peeks = 0

\* the state at the start of main, the file opened (or, for the sample
\* texts, the keyboard chosen)
ScanInit ==
  /\ mode \in ScanModes
  /\ IF mode = "scan" THEN input \in ScanInputs ELSE input = << >>
  /\ IF input \in SampleScanInputs THEN isStdin \in BOOLEAN
     ELSE isStdin = FALSE
  /\ ScanStart

\* a line printed by main or by panic
Line(kind, text) ==
  [kind |-> kind, line |-> 0, col |-> 0, expecting |-> text, found |-> << >>]

\* panic(msg): three lines, then exit(-1)
panic(msg) ==
  /\ out' = out \o << Line("PANIC", ""), Line("PANIC", msg), Line("PANIC", "") >>
  /\ pc' = "panic"

\* scanner_init, then the prompt when the input is the keyboard
scanner_init ==
  /\ pc = "main"
  /\ IF mode = "null_init"
     THEN /\ panic("one or more parameters are NULL (scanner_init)")
          /\ UNCHANGED << lineNumber, colNumber, value >>
     ELSE /\ lineNumber' = 1
          /\ colNumber' = 1
          /\ value' = << >>
          /\ out' = IF isStdin
                    THEN Append(out, Line("PROMPT",
                                  "nuPython input (enter $ when you're done)>"))
                    ELSE out
          /\ pc' = "call"
  /\ UNCHANGED << mode, input, isStdin, rd, token, scanned, io, call >>
  /\ UNCHANGED parserVars

\* the entry of scanner_nextToken: the checks of its arguments
scanner_nextToken_entry ==
  /\ pc = "call"
  /\ IF mode = "null_stream"
     THEN panic("input stream is NULL (scanner_nextToken)")
     ELSE IF mode = "null_cursor"
     THEN panic("one or more parameters are NULL (scanner_nextToken)")
     ELSE pc' = "scanning" /\ out' = out
  /\ UNCHANGED << mode, input, isStdin, rd, lineNumber, colNumber, value,
                  token, scanned, io, call >>
  /\ UNCHANGED parserVars

\* the effect of a turn of the loop of scanner_nextToken whose result is n;
\* the turn that returns hands the token and its text to main
Turned(n) ==
  /\ rd' = n.rd
  /\ lineNumber' = n.lineNumber
  /\ colNumber' = n.colNumber
  /\ out' = out \o n.warnings
  /\ io' = io \o n.io
  /\ call' = call
  /\ IF n.T.id = "NONE"
     THEN UNCHANGED << token, value, scanned, pc >>
     ELSE /\ token' = n.T
          /\ value' = n.value
          /\ scanned' = Append(scanned, [token |-> n.T, value |-> n.value])
          /\ pc' = "returned"

\* one turn of the loop of scanner_nextToken
scanner_nextToken_turn ==
  /\ pc = "scanning"
  /\ Turned(scanner_loop(input, rd, lineNumber, colNumber))
  /\ UNCHANGED << mode, input, isStdin >>
  /\ UNCHANGED parserVars

\* main prints the token returned and calls scanner_nextToken again unless
\* the token is the end of the stream
main_print ==
  /\ pc = "returned"
  /\ out' = Append(out, [kind |-> "TOKEN", line |-> token.line,
                         col |-> token.col, expecting |-> token.id,
                         found |-> value])
  /\ pc' = IF token.id = "EOS" THEN "exit" ELSE "call"
  /\ UNCHANGED << mode, input, isStdin, rd, lineNumber, colNumber, value,
                  token, scanned, io, call >>
  /\ UNCHANGED parserVars

ScanNext ==
  \/ scanner_init
  \/ scanner_nextToken_entry
  \/ scanner_nextToken_turn
  \/ main_print

ScanSpec == ScanInit /\ [][ScanNext]_vars

\* ----------------------------------------------- the scanner on long texts
\* The same program, the loops of the collect functions taken one turn at a
\* time: call holds the locals of the running call (c, the text written to
\* value[0 .. i - 1], the quote that began a string and its column, type)
\* and the token T that scanner_nextToken has prepared.

\* the character c, n times
Run(c, n) == [i \in 1..n |-> c]

\* an identifier, a number, a string, a signed number and a real number
\* whose text has n characters, for every n around the capacity of value
LongInputs ==
  UNION { { Run("a", n),
            Run("7", n),
            << "'" >> \o Run("a", n) \o << "'" >>,
            << "-" >> \o Run("7", n - 1),
            Run("7", n - 2) \o << ".", "5" >> } :
          n \in (ValueSize - MaxOver)..(ValueSize + MaxOver) }

BufferInit ==
  /\ mode = "scan"
  /\ input \in LongInputs
  /\ isStdin = FALSE
  /\ ScanStart

\* the locals of a call of a collect function that begins with c in hand
\* and text in value
Collect(proc, c, text, id) ==
  [proc |-> proc, c |-> c, text |-> text, start |-> c, col |-> colNumber,
   type |-> 0, T |-> [id |-> id, line |-> lineNumber, col |-> colNumber]]

\* the call returns: its text is terminated at value[i] and
\* scanner_nextToken returns the token id
Collected(id) ==
  /\ token' = [call.T EXCEPT !.id = id]
  /\ value' = call.text
  /\ scanned' = Append(scanned, [token |-> [call.T EXCEPT !.id = id],
                                 value |-> call.text])
  /\ call' = NoCall
  /\ pc' \in Written(Len(call.text), "returned")

\* "value[i] = c; i++; (*colNumber)++;" and the loop goes on with next in hand
Stored(c, next) ==
  /\ call' = [call EXCEPT !.text = Append(@, c), !.c = next]
  /\ colNumber' = colNumber + 1
  /\ pc' \in Written(Len(call.text), "collecting")
  /\ UNCHANGED << token, value, scanned, out >>

\* a turn of the loop of scanner_nextToken up to the call of a collect
\* function; any other turn is taken whole
scanner_nextToken_branch ==
  /\ pc = "scanning"
  /\ LET c  == fgetc(input, rd)
         r1 == fgetcPos(input, rd)
         c2 == fgetc(input, r1)
         Enter(n, r, col, ops) ==
           /\ call' = n
           /\ rd' = r
           /\ colNumber' = col
           /\ io' = io \o ops
           /\ pc' = "collecting"
           /\ UNCHANGED << lineNumber, value, token, scanned, out >>
     IN IF isalpha(c) \/ c = "_"
        THEN Enter(Collect("collect_identifier", c, << >>, "IDENTIFIER"),
                   r1, colNumber, << Get(c) >>)
        ELSE IF (c = "+" \/ c = "-") /\ isdigit(c2)
        THEN Enter(Collect("collect_int_or_real_literal", c2, << c >>,
                           "INT_LITERAL"),
                   fgetcPos(input, r1), colNumber + 1, << Get(c), Get(c2) >>)
        ELSE IF c = "'" \/ c = "\""
        THEN Enter(Collect("collect_string_literal", c, << >>, "STR_LITERAL"),
                   r1, colNumber, << Get(c) >>)
        ELSE IF isdigit(c)
        THEN Enter(Collect("collect_int_or_real_literal", c, << >>,
                           "INT_LITERAL"),
                   r1, colNumber, << Get(c) >>)
        ELSE Turned(scanner_loop(input, rd, lineNumber, colNumber))
  /\ UNCHANGED << mode, input, isStdin >>
  /\ UNCHANGED parserVars

\* one turn of the loop of collect_identifier, or its end
collect_identifier_turn ==
  /\ pc = "collecting"
  /\ call.proc = "collect_identifier"
  /\ IF isalnum(call.c) \/ call.c = "_"
     THEN /\ Stored(call.c, fgetc(input, rd))
          /\ rd' = fgetcPos(input, rd)
          /\ io' = Append(io, Get(fgetc(input, rd)))
     ELSE /\ rd' = ungetc(call.c, rd)
          /\ io' = Append(io, Unget(call.c))
          /\ Collected(KeywordId(call.text))
          /\ UNCHANGED << colNumber, out >>
  /\ UNCHANGED << mode, input, isStdin, lineNumber >>
  /\ UNCHANGED parserVars

\* one turn of the loop of collect_string_literal: the turn that stores the
\* character read, or one of the three that break
collect_string_literal_turn ==
  /\ pc = "collecting"
  /\ call.proc = "collect_string_literal"
  /\ LET c  == fgetc(input, rd)
         r1 == fgetcPos(input, rd)
         warning == [kind |-> "WARNING", line |-> lineNumber,
                     col |-> call.col, expecting |-> "", found |-> << >>]
     IN IF c = EOF \/ c = "\n" \/ (c # call.start /\ (c = "'" \/ c = "\""))
        THEN /\ out' = Append(out, warning)
             /\ rd' = ungetc(c, r1)
             /\ io' = io \o << Get(c), Unget(c) >>
             /\ Collected("STR_LITERAL")
             /\ UNCHANGED colNumber
        ELSE IF c = call.start
        THEN /\ colNumber' = colNumber + 1
             /\ rd' = r1
             /\ io' = Append(io, Get(c))
             /\ Collected("STR_LITERAL")
             /\ UNCHANGED out
        ELSE /\ Stored(c, c)
             /\ rd' = r1
             /\ io' = Append(io, Get(c))
  /\ UNCHANGED << mode, input, isStdin, lineNumber >>
  /\ UNCHANGED parserVars

\* one turn of a loop of collect_int_or_real_literal (type = 1: the '.' is
\* taken and the inner loop runs), or its end
collect_int_or_real_literal_turn ==
  /\ pc = "collecting"
  /\ call.proc = "collect_int_or_real_literal"
  /\ IF isdigit(call.c) \/ (call.c = "." /\ call.type = 0)
     THEN /\ call' = [call EXCEPT !.text = Append(@, call.c),
                                  !.c = fgetc(input, rd),
                                  !.type = IF call.c = "." THEN 1 ELSE @]
          /\ colNumber' = colNumber + 1
          /\ pc' \in Written(Len(call.text), "collecting")
          /\ rd' = fgetcPos(input, rd)
          /\ io' = Append(io, Get(fgetc(input, rd)))
          /\ UNCHANGED << token, value, scanned, out >>
     ELSE /\ rd' = ungetc(call.c, rd)
          /\ io' = Append(io, Unget(call.c))
          /\ Collected(IF call.type = 0 THEN "INT_LITERAL"
                       ELSE "REAL_LITERAL")
          /\ UNCHANGED << colNumber, out >>
  /\ UNCHANGED << mode, input, isStdin, lineNumber >>
  /\ UNCHANGED parserVars

BufferNext ==
  \/ scanner_init
  \/ scanner_nextToken_entry
  \/ scanner_nextToken_branch
  \/ collect_identifier_turn
  \/ collect_string_literal_turn
  \/ collect_int_or_real_literal_turn
  \/ main_print

BufferSpec == BufferInit /\ [][BufferNext]_vars

\* ---------------------------------------------------------------- grammar
\* The grammar of the language, as a recogniser over a sequence s of token
\* kinds: XEnds(s, i) is the set of positions j such that X derives
\* s[i..j-1].
KindAt(s, i) == IF i \in 1..Len(s) THEN s[i] ELSE "NONE"

\* the positions after a terminal k that follows a position of S
After(s, S, k) == { j + 1 : j \in { i \in S : KindAt(s, i) = k } }

GrammarElement ==
  { "IDENTIFIER", "INT_LITERAL", "REAL_LITERAL", "STR_LITERAL", "KEYW_TRUE",
    "KEYW_FALSE", "KEYW_NONE" }

GrammarBinaryOp ==
  { "PLUS", "MINUS", "ASTERISK", "POWER", "PERCENT", "SLASH", "EQUALEQUAL",
    "NOTEQUAL", "LT", "LTE", "GT", "GTE", "KEYW_IS", "KEYW_IN" }

ElementEnds(s, i) == IF KindAt(s, i) \in GrammarElement THEN { i + 1 } ELSE { }

UnaryExprEnds(s, i) ==
  (IF /\ KindAt(s, i) \in { "ASTERISK", "AMPERSAND" }
      /\ KindAt(s, i + 1) = "IDENTIFIER"
   THEN { i + 2 } ELSE { })
  \cup
  (IF /\ KindAt(s, i) \in { "PLUS", "MINUS" }
      /\ KindAt(s, i + 1) \in { "IDENTIFIER", "INT_LITERAL", "REAL_LITERAL" }
   THEN { i + 2 } ELSE { })
  \cup ElementEnds(s, i)

ExprEnds(s, i) ==
  UNION { { j } \cup (IF KindAt(s, j) \in GrammarBinaryOp
                      THEN UnaryExprEnds(s, j + 1) ELSE { })
          : j \in UnaryExprEnds(s, i) }

FunctionCallEnds(s, i) ==
  LET open == After(s, After(s, { i }, "IDENTIFIER"), "LEFT_PAREN")
      arg  == open \cup UNION { ElementEnds(s, j) : j \in open }
  IN After(s, arg, "RIGHT_PAREN")

ValueEnds(s, i) == FunctionCallEnds(s, i) \cup ExprEnds(s, i)

AssignmentEnds(s, i) ==
  LET star == { i } \cup After(s, { i }, "ASTERISK")
      eq   == After(s, After(s, star, "IDENTIFIER"), "EQUAL")
  IN After(s, UNION { ValueEnds(s, j) : j \in eq }, "EOLN")

CallStmtEnds(s, i) == After(s, FunctionCallEnds(s, i), "EOLN")

PassStmtEnds(s, i) == After(s, After(s, { i }, "KEYW_PASS"), "EOLN")

EmptyStmtEnds(s, i) == After(s, { i }, "EOLN")

\* "kw expr ':' NEWLINE", from the positions of S
HeaderEnds(s, S, kw) ==
  After(s, After(s, UNION { ExprEnds(s, j) : j \in After(s, S, kw) }, "COLON"),
        "EOLN")

RECURSIVE StmtsEnds(_, _)
RECURSIVE StmtEnds(_, _)
RECURSIVE BodyEnds(_, _)
RECURSIVE ElseChainEnds(_, _)

BodyEnds(s, i) ==
  LET open == After(s, After(s, { i }, "LEFT_BRACE"), "EOLN")
      in   == UNION { StmtsEnds(s, j) : j \in open }
  IN After(s, After(s, in, "RIGHT_BRACE"), "EOLN")

ElseChainEnds(s, i) ==
  LET elifBody == UNION { BodyEnds(s, j) : j \in HeaderEnds(s, { i }, "KEYW_ELIF") }
      elseHead == After(s, After(s, After(s, { i }, "KEYW_ELSE"), "COLON"), "EOLN")
  IN elifBody
     \cup UNION { ElseChainEnds(s, j) : j \in elifBody }
     \cup UNION { BodyEnds(s, j) : j \in elseHead }

IfThenElseEnds(s, i) ==
  LET body == UNION { BodyEnds(s, j) : j \in HeaderEnds(s, { i }, "KEYW_IF") }
  IN body \cup UNION { ElseChainEnds(s, j) : j \in body }

WhileLoopEnds(s, i) ==
  UNION { BodyEnds(s, j) : j \in HeaderEnds(s, { i }, "KEYW_WHILE") }

StmtEnds(s, i) ==
  AssignmentEnds(s, i) \cup IfThenElseEnds(s, i) \cup WhileLoopEnds(s, i)
    \cup CallStmtEnds(s, i) \cup PassStmtEnds(s, i) \cup EmptyStmtEnds(s, i)

StmtsEnds(s, i) ==
  LET one == StmtEnds(s, i)
  IN one \cup UNION { StmtsEnds(s, j) : j \in one }

\* program ::= stmts END, the END being the last token of s
Derivable(s) == (Len(s) + 1) \in After(s, StmtsEnds(s, 1), "EOS")

\* the kinds of the tokens of a queue
KindsOf(q) == [i \in 1..Len(q) |-> q[i].token.id]

\* ----------------------------------------------------------------- claims
\* the diagnostic lines printed: syntax errors and internal errors
Diagnostics == { i \in 1..Len(out) : out[i].kind \in { "SYNTAX ERROR", "INTERNAL ERROR" } }

\* parser_program has returned success / parse has returned a queue
Accepted ==
  \/ pc = "parsing" /\ stack = << >> /\ ret
  \/ pc = "done" /\ result # "NULL"

\* C1: every token sequence derivable from program ::= stmts END is accepted:
\* parse returns a queue.
C1_Completeness ==
  (pc = "done" /\ Derivable(KindsOf(scanned))) => result = "duplicate"

\* C2: every token sequence on which parser_program returns success is
\* derivable from program ::= stmts END; it holds no unrecognized token and
\* no token is left in the queue.
C2_Soundness ==
  Accepted =>
    /\ Derivable(KindsOf(scanned))
    /\ \A i \in 1..Len(scanned) : scanned[i].token.id # "UNKNOWN"
    /\ tokens = << >>

\* an assignment of a function call was accepted
C2_Witness ==
  /\ pc = "parsing" /\ stack = << >> /\ ret
  /\ Len(scanned) >= 7
  /\ \E i \in 1..Len(scanned) : scanned[i].token.id = "EQUAL"

\* C3: a call of parse that returns NULL has printed exactly one diagnostic
\* line.
C3_OneDiagnostic ==
  (pc = "done" /\ result = "NULL") => Cardinality(Diagnostics) = 1

\* C4: the queue parse returns holds exactly the (token, text) pairs the
\* scanner produced, in scan order, up to and including the one trailing
\* end-of-stream token; draining the original during parsing changes nothing
\* in it.
C4_RoundTrip ==
  /\ pc = "parsing" => duplicate = scanned
  /\ (pc = "done" /\ result # "NULL") =>
       /\ result = "duplicate"
       /\ heap.duplicate = "live"
       /\ duplicate = scanned
       /\ duplicate[Len(duplicate)].token.id = "EOS"
       /\ \A i \in 1..(Len(duplicate) - 1) : duplicate[i].token.id # "EOS"

\* parse has returned the queue of a program of several statements
C4_Witness ==
  /\ pc = "done" /\ result = "duplicate"
  /\ Len(duplicate) >= 8
  /\ heap.tokens = "freed"

\* C5: parse of the characters p a s s newline succeeds and prints nothing.
C5_PassAccepted ==
  (pc = "done" /\ mode = "chars" /\ input = << "p", "a", "s", "s", "\n" >>)
    => (result = "duplicate" /\ out = << >>)

\* a diagnostic has been printed while the grammar runs
Diagnosed == pc = "parsing" /\ Diagnostics # { }

\* C6: once a diagnostic is printed, every step up to the return of
\* parser_program is a return of failure to the caller: no token is removed,
\* the queue is not peeked at, nothing more is printed.
C6_StopsAtFirstError ==
  [][ (Diagnosed /\ stack # << >>) =>
        /\ stack' = SubSeq(stack, 1, Len(stack) - 1)
        /\ ret = FALSE /\ ret' = FALSE
        /\ tokens' = tokens
        /\ peeks' = peeks
        /\ out' = out ]_vars

\* the failure of the match of ')' is on its way up from parser_function_call
\* in an assignment
C6_Witness ==
  /\ Diagnosed
  /\ Len(stack) >= 6
  /\ Top.proc = "parser_function_call"
  /\ ret = FALSE

\* the program "if x:" NEWLINE "{" NEWLINE "}" NEWLINE
EmptyBodyProgram ==
  \/ /\ mode = "chars"
     /\ input = << "i", "f", " ", "x", ":", "\n", "{", "\n", "}", "\n" >>
  \/ /\ mode = "tokens"
     /\ feed = << "KEYW_IF", "IDENTIFIER", "COLON", "EOLN", "LEFT_BRACE", "EOLN",
                  "RIGHT_BRACE", "EOLN", "EOS" >>

\* C7: parsing the program with the empty body fails with one diagnostic,
\* which cites the position of the '}' token, its text, and 'start of a
\* statement'.
C7_EmptyBody ==
  (pc = "done" /\ EmptyBodyProgram) =>
    /\ result = "NULL"
    /\ Len(out) = 1
    /\ out[1].kind = "SYNTAX ERROR"
    /\ out[1].expecting = "start of a statement"
    /\ out[1].found = << "}" >>
    /\ \E i \in 1..Len(scanned) :
         /\ scanned[i].token.id = "RIGHT_BRACE"
         /\ out[1].line = scanned[i].token.line
         /\ out[1].col = scanned[i].token.col

\* the program "x = y(" NEWLINE
OpenCallProgram ==
  \/ mode = "chars" /\ input = << "x", " ", "=", " ", "y", "(", "\n" >>
  \/ /\ mode = "tokens"
     /\ feed = << "IDENTIFIER", "EQUAL", "IDENTIFIER", "LEFT_PAREN", "EOLN",
                  "EOS" >>

\* C8: the parser terminates: a procedure that calls itself again (directly
\* or through others) has removed a token in between, the recursion does not
\* run away, and parsing "x = y(" NEWLINE fails with the diagnostic for the
\* missing ')'.
C8_Terminates ==
  /\ \A i, j \in 1..Len(stack) :
       ( /\ i < j
         /\ stack[i].proc = stack[j].proc
         /\ stack[i].proc \in { "parser_stmts", "parser_else", "parser_body" } )
       => stack[j].entryLen < stack[i].entryLen
  /\ pc # "overflow"
  /\ (pc = "done" /\ OpenCallProgram) =>
       /\ result = "NULL"
       /\ Len(out) = 1
       /\ out[1].expecting = ")"

\* the procedures of the statement kinds
StmtProcs ==
  { "parser_assignment", "parser_if_then_else", "parser_while_loop",
    "parser_call_stmt", "parser_pass_stmt", "parser_empty_stmt" }

\* C9: whenever startOfStmt has returned true, parser_stmt calls the
\* procedure of one statement kind, or prints an INTERNAL ERROR and returns
\* failure.
C9_LockStep ==
  [][ (Running("parser_stmt") /\ Top.pc = 1 /\ ret) =>
        \/ /\ Len(stack') = Len(stack) + 1
           /\ stack'[Len(stack')].proc \in StmtProcs
        \/ /\ stack' = SubSeq(stack, 1, Len(stack) - 1)
           /\ ret' = FALSE
           /\ Len(out') = Len(out) + 1
           /\ out'[Len(out')].kind = "INTERNAL ERROR"
        \/ pc' = "overflow" ]_vars

C11_DuplicateUntouched ==
  [][ (pc = "parsing" /\ stack # << >>) =>
        /\ duplicate = scanned
        /\ duplicate' = duplicate ]_vars

\* the original has been drained of all its N >= 3 tokens, the duplicate
\* still holds the N
C11_Witness ==
  /\ pc = "parsing"
  /\ stack # << >>
  /\ tokens = << >>
  /\ Len(duplicate) >= 3
  /\ duplicate = scanned

\* C12: parse on a non-null stream destroys the original queue exactly once,
\* after parsing, whatever the outcome; it destroys the duplicate exactly
\* once when parsing failed and not at all when it succeeded; the queue it
\* returns has not been destroyed.
C12_QueueLifecycle ==
  /\ (mode \in { "chars", "tokens" } /\ pc \in { "loop", "parsing" }) =>
       /\ heap.tokens = "live"
       /\ heap.duplicate \in { "none", "live" }
  /\ (mode \in { "chars", "tokens" } /\ pc = "done") =>
       /\ heap.tokens = "freed"
       /\ result = "NULL" => heap.duplicate = "freed"
       /\ result = "duplicate" => heap.duplicate = "live"
       /\ result \in { "NULL", "duplicate" }

\* parse has returned the duplicate: the original destroyed, the duplicate not
C12_Witness ==
  /\ pc = "done"
  /\ result = "duplicate"
  /\ heap = [tokens |-> "freed", duplicate |-> "live"]
  /\ Len(duplicate) >= 3

\* a public entry point has been given a NULL argument
NullArgument ==
  mode \in { "null", "null_init", "null_stream", "null_cursor" }

\* C13: a call of scanner_init, scanner_nextToken or parse with a NULL
\* argument ends in panic (a diagnostic, then the process exits): it never
\* returns to its caller.
C13_NullIsFatal ==
  NullArgument =>
    /\ pc \in { "entry", "main", "call", "panic" }
    /\ result = "none"
    /\ pc = "panic" => (\E i \in 1..Len(out) : out[i].kind = "PANIC")

\* --------------------------------------------------- claims on the scanner
\* the characters of the stream from position a up to, not including, b
Span(a, b) == SubSeq(input, a, b - 1)

\* a turn of the loop of scanner_nextToken, and the turn that returns
Turn == pc = "scanning"

TurnReturns == pc = "scanning" /\ pc' = "returned"

\* C14: the scanner terminates on every finite input: a turn of its loop
\* reads within the input, a turn that does not return the end-of-stream
\* token has consumed at least one character net of pushback, at the end of
\* the input the turn returns the end-of-stream token, and the calls up to
\* that token are at most (input length + 1).
C14_ScannerTerminates ==
  [][ Turn =>
        /\ rd' \in rd..(Len(input) + 1)
        /\ (pc' = "scanning" \/ token'.id # "EOS") => rd' > rd
        /\ rd > Len(input) => (pc' = "returned" /\ token'.id = "EOS")
        /\ Len(scanned') <= Len(input) + 1 ]_vars

\* a malformed input of three characters scanned to the end in four calls,
\* two of them warning of an unterminated string
C14_Witness ==
  /\ pc = "exit"
  /\ Len(input) = 3
  /\ Len(scanned) = 4
  /\ Cardinality({ i \in 1..Len(out) : out[i].kind = "WARNING" }) = 2

\* a sequence of whitespace characters
IsBlank(s) == \A i \in 1..Len(s) : isspace(s[i])

\* a line comment: from '#' to the end of the line or of the input
IsComment(s) ==
  /\ s # << >>
  /\ s[1] = "#"
  /\ \A i \in 1..(Len(s) - 1) : s[i] # "\n"

\* the text v of a string literal with its delimiters
IsQuoted(s, v) ==
  /\ s # << >>
  /\ s[1] \in { "'", "\"" }
  /\ s \in { << s[1] >> \o v, << s[1] >> \o v \o << s[1] >> }

\* C15: every character read is classified: the characters a turn of the
\* scanner consumes are whitespace or a comment when no token is returned,
\* and otherwise exactly the text of the token returned (with its
\* delimiters, for a string literal); so the character after a '+' or a '-'
\* that no digit follows is left for the next call.
C15_EveryCharClassified ==
  [][ Turn =>
        IF pc' = "scanning"
        THEN IsBlank(Span(rd, rd')) \/ IsComment(Span(rd, rd'))
        ELSE \/ token'.id = "EOS"
             \/ token'.id = "STR_LITERAL" /\ IsQuoted(Span(rd, rd'), value')
             \/ token'.id # "STR_LITERAL" /\ Span(rd, rd') = value' ]_vars

\* the text "x = 1" NEWLINE
AssignmentText == << "x", " ", "=", " ", "1", "\n" >>

\* C16: the text "x = 1" NEWLINE is tokenized to identifier x, '=', integer
\* literal 1, a newline token and the end-of-stream token, the first four on
\* line 1 at columns 1, 3, 5 and 6.
C16_TokenizeAssignment ==
  (pc = "exit" /\ mode = "scan" /\ input = AssignmentText) =>
    /\ KindsOf(scanned)
         = << "IDENTIFIER", "EQUAL", "INT_LITERAL", "EOLN", "EOS" >>
    /\ scanned[1].value = << "x" >>
    /\ scanned[2].value = << "=" >>
    /\ scanned[3].value = << "1" >>
    /\ \A i \in 1..4 : scanned[i].token.line = 1
    /\ << scanned[1].token.col, scanned[2].token.col, scanned[3].token.col,
          scanned[4].token.col >> = << 1, 3, 5, 6 >>

ColumnOf(p) ==
  LET before == { i \in 1..(p - 1) : input[i] = "\n" }
      last   == IF before = { } THEN 0
                ELSE CHOOSE i \in before : \A j \in before : j <= i
  IN p - last

\* C18: the col of every token returned is the position within its line of
\* the token's first character.
C18_TokenColumn ==
  [][ (TurnReturns /\ rd <= Len(input)) => token'.col = ColumnOf(rd) ]_vars

\* the number of digits of the input from position p on
RECURSIVE DigitRun(_)
DigitRun(p) == IF isdigit(fgetc(input, p)) THEN 1 + DigitRun(p + 1) ELSE 0

\* the length of the signed literal whose sign is at p: sign, digits, and
\* '.' with the digits after it when a '.' follows the digits
SignedLiteralLen(p) ==
  LET n == DigitRun(p + 1)
  IN IF fgetc(input, p + 1 + n) = "."
     THEN 1 + n + 1 + DigitRun(p + n + 2)
     ELSE 1 + n

\* C19: a '+' or '-' directly followed by a digit yields one literal token:
\* its text is the sign, the digits and, when a '.' follows them, the '.'
\* and the digits after it; its kind is real literal with a '.', integer
\* literal without; its position is that of the sign; the column advances
\* by the length of the text.  "-3.5" yields the real literal "-3.5" alone.
C19_SignedLiteral ==
  [][ ( /\ Turn
        /\ fgetc(input, rd) \in { "+", "-" }
        /\ isdigit(fgetc(input, rd + 1)) ) =>
        LET text == Span(rd, rd + SignedLiteralLen(rd))
        IN /\ pc' = "returned"
           /\ scanned' = Append(scanned, [token |-> token', value |-> value'])
           /\ value' = text
           /\ rd' = rd + Len(text)
           /\ token'.id = IF \E i \in 1..Len(text) : text[i] = "."
                          THEN "REAL_LITERAL" ELSE "INT_LITERAL"
           /\ token'.line = lineNumber
           /\ token'.col = colNumber
           /\ colNumber' = colNumber + Len(text)
           /\ lineNumber' = lineNumber
           /\ input = << "-", "3", ".", "5" >> =>
                (token'.id = "REAL_LITERAL" /\ value' = input) ]_vars

\* "-3.5" has been scanned: one real literal, then the end of the stream
C19_Witness ==
  /\ pc = "exit"
  /\ input = << "-", "3", ".", "5" >>
  /\ KindsOf(scanned) = << "REAL_LITERAL", "EOS" >>
  /\ scanned[1].value = << "-", "3", ".", "5" >>

\* the kinds of the tokens that start with '=', '!', '<', '>': alone, and
\* followed by '='
CompareKinds(c) ==
  CASE c = "=" -> << "EQUAL", "EQUALEQUAL" >>
    [] c = "!" -> << "UNKNOWN", "NOTEQUAL" >>
    [] c = "<" -> << "LT", "LTE" >>
    [] c = ">" -> << "GT", "GTE" >>

\* C20: "==", "!=", "<=", ">=" are each one token of two characters; '=',
\* '<', '>' without a '=' after them are tokens of one character and a '!'
\* without a '=' after it is an unrecognized token with text "!"; the
\* column advances by the length of the text and the character after a
\* one-character token is left for the next call.
C20_CompareOperators ==
  [][ (Turn /\ fgetc(input, rd) \in { "=", "!", "<", ">" }) =>
        LET c    == fgetc(input, rd)
            two  == fgetc(input, rd + 1) = "="
            text == IF two THEN << c, "=" >> ELSE << c >>
        IN /\ pc' = "returned"
           /\ scanned' = Append(scanned, [token |-> token', value |-> value'])
           /\ token'.id = CompareKinds(c)[IF two THEN 2 ELSE 1]
           /\ value' = text
           /\ rd' = rd + Len(text)
           /\ token'.line = lineNumber
           /\ token'.col = colNumber
           /\ colNumber' = colNumber + Len(text)
           /\ lineNumber' = lineNumber ]_vars

\* a '!' has been returned as an unrecognized token, the character after it
\* still to be read
C20_Witness ==
  /\ pc = "returned"
  /\ token.id = "UNKNOWN"
  /\ value = << "!" >>
  /\ rd <= Len(input)
  /\ input[rd] # "="
  /\ \E i \in 1..Len(scanned) : scanned[i].token.id \in { "GTE", "LTE" }

\* ---------------------------------------------- the rules of the scanner
\* the turn returns the token id with the given text at the position of the
\* cursor, having consumed used characters, printed nothing and left the
\* line counter alone
Yields(id, text, used) ==
  /\ pc' = "returned"
  /\ token' = [id |-> id, line |-> lineNumber, col |-> colNumber]
  /\ value' = text
  /\ scanned' = Append(scanned, [token |-> token', value |-> value'])
  /\ rd' = rd + used
  /\ lineNumber' = lineNumber
  /\ out' = out

\* C21: the asterisk rule: "**" is returned as one power token and the
\* column advances by two; a '*' followed by any other character, or by the
\* end of the stream, is returned as an asterisk token, the column advances
\* by one and that other character is the first one the next call reads;
\* so "***" yields power, then asterisk.
C21_AsteriskRule ==
  [][ /\ (Turn /\ fgetc(input, rd) = "*") =>
           IF fgetc(input, rd + 1) = "*"
           THEN Yields("POWER", << "*", "*" >>, 2)
                  /\ colNumber' = colNumber + 2
           ELSE Yields("ASTERISK", << "*" >>, 1)
                  /\ colNumber' = colNumber + 1
      /\ (pc' = "exit" /\ input = << "*", "*", "*" >>) =>
           KindsOf(scanned') = << "POWER", "ASTERISK", "EOS" >> ]_vars

\* "a***b" has been scanned: the identifier b follows the asterisk
C21_Witness ==
  /\ pc = "exit"
  /\ input = << "a", "*", "*", "*", "b" >>
  /\ KindsOf(scanned)
       = << "IDENTIFIER", "POWER", "ASTERISK", "IDENTIFIER", "EOS" >>
  /\ scanned[4].value = << "b" >>
  /\ scanned[4].token.col = 5

\* the token kind of each single-character punctuation
PunctuationKind(c) ==
  CASE c = "(" -> "LEFT_PAREN"
    [] c = ")" -> "RIGHT_PAREN"
    [] c = "[" -> "LEFT_BRACKET"
    [] c = "]" -> "RIGHT_BRACKET"
    [] c = "{" -> "LEFT_BRACE"
    [] c = "}" -> "RIGHT_BRACE"
    [] c = ":" -> "COLON"
    [] c = "&" -> "AMPERSAND"

\* C22: for each of the punctuation characters ( ) [ ] { } : & the scanner
\* returns the token kind of that character, with the character as text and
\* the position of the cursor before the call; the column advances by
\* exactly one and the line is unchanged.
C22_Punctuation ==
  [][ (Turn /\ fgetc(input, rd) \in { "(", ")", "[", "]", "{", "}", ":", "&" })
        => /\ Yields(PunctuationKind(fgetc(input, rd)),
                     << fgetc(input, rd) >>, 1)
           /\ colNumber' = colNumber + 1 ]_vars

\* "()[]{}:&" has been scanned: eight tokens of eight kinds at columns 1..8
C22_Witness ==
  /\ pc = "exit"
  /\ input = << "(", ")", "[", "]", "{", "}", ":", "&" >>
  /\ KindsOf(scanned)
       = << "LEFT_PAREN", "RIGHT_PAREN", "LEFT_BRACKET", "RIGHT_BRACKET",
            "LEFT_BRACE", "RIGHT_BRACE", "COLON", "AMPERSAND", "EOS" >>
  /\ \A i \in 1..8 : scanned[i].token.col = i /\ scanned[i].token.line = 1

\* the number of letters, digits and underscores of the input from p on
RECURSIVE IdentRun(_)
IdentRun(p) ==
  IF isalnum(fgetc(input, p)) \/ fgetc(input, p) = "_"
  THEN 1 + IdentRun(p + 1) ELSE 0

\* the kind of an identifier text: that of the keyword it equals, if any
WordKind(s) ==
  CASE s = "and"      -> "KEYW_AND"
    [] s = "break"    -> "KEYW_BREAK"
    [] s = "continue" -> "KEYW_CONTINUE"
    [] s = "def"      -> "KEYW_DEF"
    [] s = "elif"     -> "KEYW_ELIF"
    [] s = "else"     -> "KEYW_ELSE"
    [] s = "False"    -> "KEYW_FALSE"
    [] s = "for"      -> "KEYW_FOR"
    [] s = "if"       -> "KEYW_IF"
    [] s = "in"       -> "KEYW_IN"
    [] s = "is"       -> "KEYW_IS"
    [] s = "None"     -> "KEYW_NONE"
    [] s = "not"      -> "KEYW_NOT"
    [] s = "or"       -> "KEYW_OR"
    [] s = "pass"     -> "KEYW_PASS"
    [] s = "return"   -> "KEYW_RETURN"
    [] s = "True"     -> "KEYW_TRUE"
    [] s = "while"    -> "KEYW_WHILE"
    [] OTHER          -> "IDENTIFIER"

\* C23: the identifier rule: a letter or an underscore starts a token that
\* takes all the letters, digits and underscores that follow and leaves the
\* first other character for the next call; its kind is that of the keyword
\* its text equals, case-sensitively, and identifier when it equals none of
\* the 18 keywords ("True" is a keyword, "true" an identifier).
C23_IdentifierRule ==
  [][ (Turn /\ (isalpha(fgetc(input, rd)) \/ fgetc(input, rd) = "_")) =>
        LET text == Span(rd, rd + IdentRun(rd))
        IN /\ Yields(WordKind(Join(text)), text, Len(text))
           /\ colNumber' = colNumber + Len(text)
           /\ text = << "T", "r", "u", "e" >> => token'.id = "KEYW_TRUE"
           /\ text = << "t", "r", "u", "e" >> => token'.id = "IDENTIFIER" ]_vars

\* "True true" has been scanned: a keyword, then an identifier
C23_Witness ==
  /\ pc = "exit"
  /\ input = << "T", "r", "u", "e", " ", "t", "r", "u", "e" >>
  /\ KindsOf(scanned) = << "KEYW_TRUE", "IDENTIFIER", "EOS" >>
  /\ scanned[2].value = << "t", "r", "u", "e" >>

\* the length of the literal whose first digit is at p: the digits, and
\* '.' with the digits after it when a '.' follows the digits
LiteralLen(p) ==
  LET n == DigitRun(p)
  IN IF fgetc(input, p + n) = "." THEN n + 1 + DigitRun(p + n + 1) ELSE n

\* C24: the numeric literal rule: a digit starts a literal that takes all
\* the digits that follow; its kind is integer literal unless a '.' directly
\* follows those digits, and then the '.' and the digits after it are taken
\* and the kind is real literal; the text holds at most one '.', and the
\* first character that does not belong to the literal is the first one the
\* next call reads; "1.2.3" yields real "1.2", unrecognized ".", integer "3".
C24_NumericLiteral ==
  [][ /\ (Turn /\ isdigit(fgetc(input, rd))) =>
           LET text == Span(rd, rd + LiteralLen(rd))
               dots == { i \in 1..Len(text) : text[i] = "." }
           IN /\ Yields(IF dots = { } THEN "INT_LITERAL" ELSE "REAL_LITERAL",
                        text, Len(text))
              /\ colNumber' = colNumber + Len(text)
              /\ Cardinality(dots) <= 1
      /\ (pc' = "exit" /\ input = << "1", ".", "2", ".", "3" >>) =>
           /\ KindsOf(scanned')
                = << "REAL_LITERAL", "UNKNOWN", "INT_LITERAL", "EOS" >>
           /\ scanned'[1].value = << "1", ".", "2" >>
           /\ scanned'[2].value = << "." >>
           /\ scanned'[3].value = << "3" >> ]_vars

\* "1.2.3" has been scanned to the end in four calls
C24_Witness ==
  /\ pc = "exit"
  /\ input = << "1", ".", "2", ".", "3" >>
  /\ Len(scanned) = 4
  /\ scanned[1].token.id = "REAL_LITERAL"
  /\ scanned[3].token.id = "INT_LITERAL"

\* the position of the first quote, newline or end of the stream from p on
RECURSIVE StringEnd(_)
StringEnd(p) ==
  IF fgetc(input, p) \in { "'", "\"", "\n", EOF } THEN p
  ELSE StringEnd(p + 1)

\* C25: the string literal rule: a quote starts a string literal whose text
\* is the characters up to the next occurrence of the same quote, quotes
\* stripped, and no warning is printed; when the other quote, a newline or
\* the end of the stream comes first the scan does not abort: exactly one
\* warning is printed, the token is returned with the text collected so far
\* and the offending character is read again by the next call; so a quote,
\* "abc", then the end of the stream yields the string literal "abc", one
\* warning, then the end-of-stream token.
C25_StringLiteral ==
  [][ /\ (Turn /\ fgetc(input, rd) \in { "'", "\"" }) =>
           LET e      == StringEnd(rd + 1)
               closed == fgetc(input, e) = fgetc(input, rd)
           IN /\ pc' = "returned"
              /\ token' = [id |-> "STR_LITERAL", line |-> lineNumber,
                           col |-> colNumber]
              /\ value' = Span(rd + 1, e)
              /\ scanned' = Append(scanned,
                                   [token |-> token', value |-> value'])
              /\ lineNumber' = lineNumber
              /\ rd' = IF closed THEN e + 1 ELSE e
              /\ IF closed THEN out' = out
                 ELSE /\ Len(out') = Len(out) + 1
                      /\ SubSeq(out', 1, Len(out)) = out
                      /\ out'[Len(out')].kind = "WARNING"
      /\ (pc' = "exit" /\ input = << "'", "a", "b", "c" >>) =>
           /\ KindsOf(scanned') = << "STR_LITERAL", "EOS" >>
           /\ scanned'[1].value = << "a", "b", "c" >>
           /\ Cardinality({ i \in 1..Len(out') : out'[i].kind = "WARNING" })
                = 1 ]_vars

\* a string that the other quote ends has been scanned: the literal "a" with
\* one warning, then the literal "b" that the end of the stream ends, with a
\* second warning
C25_Witness ==
  /\ pc = "exit"
  /\ input = << "'", "a", "\"", "b" >>
  /\ KindsOf(scanned) = << "STR_LITERAL", "STR_LITERAL", "EOS" >>
  /\ scanned[1].value = << "a" >>
  /\ scanned[2].value = << "b" >>
  /\ Cardinality({ i \in 1..Len(out) : out[i].kind = "WARNING" }) = 2

\* the characters the other rules of the scanner start with
RuleCharacters ==
  Letters \cup Digits
    \cup { EOF, "$", " ", "\t", "\n", "\r", "\f", "_", "(", ")", "[", "]",
           "{", "}", ":", "&", "*", "+", "-", "/", "%", "=", "!", "<", ">",
           "'", "\"", "#" }

RECURSIVE LineEnd(_)
LineEnd(p) ==
  IF fgetc(input, p) \in { "\n", EOF } THEN p ELSE LineEnd(p + 1)

C29_WellFormedStream ==
  [][ /\ pc \in { "entry", "loop" } => stack = << >>
      /\ (pc = "loop" /\ pc' = "loop" /\ mode = "chars") =>
           /\ rd' \in rd..(Len(input) + 1)
           /\ token'.id # "EOS" => rd' > rd
      /\ (pc = "loop" /\ pc' = "parsing") =>
           /\ tokens' # << >>
           /\ tokens' = scanned
           /\ tokens'[Len(tokens')].token.id = "EOS"
           /\ \A i \in 1..(Len(tokens') - 1) : tokens'[i].token.id # "EOS"
           /\ stack' # << >>
      /\ pc \in { "parsing", "overflow", "done" } =>
           /\ scanned' = scanned
           /\ token' = token
           /\ << lineNumber', colNumber' >> = << lineNumber, colNumber >> ]_vars

\* the grammar runs on the tokens of "x@'a": an unrecognized character and
\* an unterminated string, a warning printed, the end-of-stream token last
C29_Witness ==
  /\ pc = "parsing"
  /\ stack # << >>
  /\ mode = "chars"
  /\ input = << "x", "@", "'", "a" >>
  /\ KindsOf(duplicate) = << "IDENTIFIER", "UNKNOWN", "STR_LITERAL", "EOS" >>
  /\ \E i \in 1..Len(out) : out[i].kind = "WARNING"

\* the procedure p returns success in this step
Succeeds(p) ==
  /\ Running(p)
  /\ stack' = SubSeq(stack, 1, Len(stack) - 1)
  /\ ret'

\* the number of tokens the returning procedure has removed from the queue
\* since its call
Removed == Top.entryLen - Len(tokens')

\* C30: a grammar procedure that returns success has removed from the head
\* of the queue exactly the tokens of the phrase it recognised:
\* parser_element one token, parser_unary_expr one or two, parser_op one,
\* parser_expr one to five, parser_function_call three, or four with the
\* optional element.
C30_ConsumesPhrase ==
  [][ /\ Succeeds("parser_element") => Removed = 1
      /\ Succeeds("parser_unary_expr") => Removed \in { 1, 2 }
      /\ Succeeds("parser_op") => Removed = 1
      /\ Succeeds("parser_expr") => Removed \in 1..5
      /\ Succeeds("parser_function_call") => Removed \in { 3, 4 } ]_vars

\* ------------------------------------------------- the stream and buffers
\* C31: the scanner needs a pushback buffer of one character only: every
\* character pushed back is the character the read just before returned, so
\* at most one character is pushed back between two reads of the stream.
C31_OnePushback ==
  \A k \in 1..Len(io) :
    io[k][1] = "ungetc" => (k > 1 /\ io[k - 1] = Get(io[k][2]))

\* "a***b" has been scanned: the calls on the stream, three pushbacks among
\* them
C31_Witness ==
  /\ pc = "exit"
  /\ input = << "a", "*", "*", "*", "b" >>
  /\ io = << Get("a"), Get("*"), Unget("*"), Get("*"), Get("*"), Get("*"),
             Get("b"), Unget("b"), Get("b"), Get(EOF), Unget(EOF),
             Get(EOF) >>

\* a grammar procedure is running and this step reads the queue: it peeks
\* at it or removes a token from it
ReadsQueue ==
  /\ pc = "parsing"
  /\ stack # << >>
  /\ (peeks' > peeks \/ tokens' # tokens)

\* C32: the parser never reads from an empty queue: on every queue that ends
\* in exactly one end-of-stream token, every peek and every dequeue of
\* parser_program and the procedures below it happens while the queue holds
\* a token; the end-of-stream token is removed only by the final match of
\* parser_program, and nothing is peeked at or removed after it.
C32_NeverReadsEmpty ==
  [][ /\ ReadsQueue => (tokens # << >> /\ fault' = "none")
      /\ (ReadsQueue /\ tokens' # tokens) =>
           /\ tokens' = Tail(tokens)
           /\ tokens[1].token.id = "EOS" =>
                /\ Running("match")
                /\ Len(stack) = 2
                /\ stack[1].proc = "parser_program"
                /\ stack[1].pc = 2
                /\ tokens' = << >>
      /\ (pc = "parsing" /\ stack # << >> /\ tokens = << >>) =>
           (peeks' = peeks /\ tokens' = tokens) ]_vars

\* the final match of parser_program has removed the end-of-stream token of
\* a program of three tokens or more: the queue is empty and was never read
\* while empty
C32_Witness ==
  /\ pc = "parsing"
  /\ Len(stack) = 1
  /\ Top.proc = "parser_program"
  /\ ret
  /\ tokens = << >>
  /\ Len(duplicate) >= 3
  /\ fault = "none"

\* the number of newline characters of the input before position p
NewlinesBefore(p) ==
  Cardinality({ i \in 1..Len(input) : i < p /\ input[i] = "\n" })

\* C33: the line of every token the scanner returns is 1 plus the number of
\* newline characters before the token's first character (for the
\* end-of-stream token: before the end of the input or the '$'), also after
\* a line comment that the end of the stream ends and after a '+' or '-'
\* that a newline follows.
C33_TokenLine ==
  [][ TurnReturns => token'.line = 1 + NewlinesBefore(rd) ]_vars

\* C34: the scanner never writes outside the buffer it is given: every
\* index of value that collect_identifier, collect_string_literal,
\* collect_int_or_real_literal and scanner_nextToken write, that of the
\* terminating zero included, is below the capacity of the buffer, however
\* long an identifier, a string or a number of the input is.
C34_WritesInsideBuffer ==
  [][ pc = "collecting" => Len(call.text) < ValueSize ]_vars

====
